---- MODULE Spec2Model ----
(***************************************************************************)
(* A model of the scan-and-process pipeline of the file processing         *)
(* application: the ProcessingTracker (src/utils/tracker.py), the          *)
(* FolderScanner (src/modules/folder_scanner.py), the FileProcessor        *)
(* (src/modules/file_processor.py) and the front-end glue that drives      *)
(* them (src/cli/terminal.py).                                             *)
(*                                                                         *)
(* Representation.  A name is a sequence of one-character strings, so      *)
(* that splitext, lower, lstrip and startswith are computed on characters. *)
(* A path is a sequence of names (its components); os.path.join appends a  *)
(* component and os.path.basename / Path.name take the last one.           *)
(* uuid.uuid4() is a fresh value drawn from the counter nextGuid.          *)
(* Timestamps (discovered_at, processed_at, started_at, ...) are left out. *)
(* An optional value is <<>> (None) or <<v>>.                              *)
(***************************************************************************)
EXTENDS Integers, Sequences, FiniteSets, TLC

VARIABLES
    config,      \* the global Config instance: max_depth, skip_hidden_folders, skip_hidden_files
    tracker,     \* the shared ProcessingTracker: log_to_console, entries, errors, warnings
    nextGuid,    \* source of fresh uuid4 values
    sinkFails,   \* environment: how many console writes have failed so far
    proc,        \* FileProcessor: self.results, and the position inside process_folders
    fileObs,     \* history: what the file system answered for each file attempt
    fs,          \* environment: the directories enumerated so far and what they hold
    scanner,     \* FolderScanner: self.scanned_folders, and the position inside scan
    ret,         \* what the last query (get_summary, ...) returned to its caller
    cli,         \* the program run through main() in CLI mode: its position and its outcome
    threads,     \* threads that call the tracker: where each is in its call
    gui          \* the graphical front end: its fields, its buttons and its worker threads

vars == <<config, tracker, nextGuid, sinkFails, proc, fileObs, fs, scanner, ret, cli, threads, gui>>

-----------------------------------------------------------------------------
(* Bounds of the model *)

\* console writes (print) that may fail during one behaviour
MaxSinkFail == 2
\* folders handed to one process_folders call
MaxFolders == 2
\* files in all folders of one process_folders call together
MaxTotalFiles == 2
\* largest config.max_depth the scans run with
MaxDepthCfg == 1
\* directories of a tree that hold anything; the directories met after them are empty
MaxDirs == 3
\* console writes (print) that may fail during one scan
MaxScanSinkFail == 1
\* the tracker on its own: entries held between two clears
MaxEntries == 3
\* bits of mantissa of the model's floats
MantBits == 10
\* get_summary on its own: folders of a result list, files of one folder
MaxSummaryFolders == 2
MaxFolderFiles == 3
\* the largest max_depth of the scans of deeper trees
MaxTreeDepth == 2
\* threads that use one tracker
MaxThreads == 2
\* scans started from the graphical front end
MaxGuiScans == 2

-----------------------------------------------------------------------------
(* Names *)

N_a_pdf == <<"a", ".", "p", "d", "f">>
N_B_PDF == <<"B", ".", "P", "D", "F">>
N_c_txt == <<"c", ".", "t", "x", "t">>
N_d_csv == <<"d", ".", "c", "s", "v">>
N_n_tmp == <<"n", ".", "t", "m", "p">>
N_h_pdf == <<".", "h", ".", "p", "d", "f">>
N_x     == <<"x">>
N_root  == <<"r", "o", "o", "t">>
N_sub   == <<"s", "u", "b">>
N_docs  == <<"d", "o", "c", "s">>
N_git   == <<".", "g", "i", "t">>
N_lnk   == <<"l", "n", "k">>

None == <<>>
Some(v) == <<v>>

Last(s) == s[Len(s)]

RECURSIVE SumSeq(_)
SumSeq(s) == IF s = <<>> THEN 0 ELSE Head(s) + SumSeq(Tail(s))

\* str.lower(), on the letters that occur in the model's names
ToLower == ("B" :> "b") @@ ("P" :> "p") @@ ("D" :> "d") @@ ("F" :> "f")

lower(s) == [i \in 1..Len(s) |-> IF s[i] \in DOMAIN ToLower THEN ToLower[s[i]] ELSE s[i]]

\* str.lstrip('.')
RECURSIVE lstrip_dot(_)
lstrip_dot(s) == IF s # <<>> /\ Head(s) = "." THEN lstrip_dot(Tail(s)) ELSE s

\* str.startswith('.')
startswith_dot(s) == s # <<>> /\ Head(s) = "."

\* index of the last "." of s, 0 when there is none (str.rfind + 1)
rfind_dot(s) ==
    LET D == {i \in 1..Len(s) : s[i] = "."}
    IN  IF D = {} THEN 0 ELSE CHOOSE i \in D : \A j \in D : j <= i

\* os.path.splitext(p)[1] for a path p whose last component is name: the
\* extension starts at the last dot of the name, unless only dots precede it.
splitext_ext(name) ==
    LET dotIndex == rfind_dot(name)
    IN  IF dotIndex > 0 /\ \E j \in 1..(dotIndex - 1) : name[j] # "."
        THEN SubSeq(name, dotIndex, Len(name))
        ELSE <<>>

\* os.path.join(folder.path, filename)
path_join(path, name) == Append(path, name)

\* os.path.basename(filepath), Path.name
basename(path) == Last(path)

-----------------------------------------------------------------------------
(* Config (src/config.py) *)

supported_extensions ==
    { <<".", "p", "d", "f">>, <<".", "d", "o", "c">>, <<".", "d", "o", "c", "x">>,
      <<".", "x", "l", "s">>, <<".", "x", "l", "s", "x">>, <<".", "t", "x", "t">>,
      <<".", "c", "s", "v">> }

\* a slip: the extension compared as written, without lower()
is_supported_file_case_sensitive(filepath) ==
    LET ext == splitext_ext(basename(filepath))
    IN  ext \in supported_extensions

is_supported_file(filepath) ==
    LET ext == lower(splitext_ext(basename(filepath)))
    IN  ext \in supported_extensions

\* the program before main() is entered; run and status become Some(v) when
\* TerminalInterface.run has returned v and the process has exited with status v
NewCli == [pc |-> "start", answer |-> "", report |-> "", run |-> None, status |-> None]

\* no thread but the one that runs the program, and no graphical front end
NoThreads == [pcs |-> <<>>, issued |-> 0, cleared |-> FALSE]
NoGui ==
    [pc |-> "off", path |-> FALSE, scanner |-> 0, scanned_folders |-> 0, scans |-> 0,
     process_btn |-> "disabled", is_processing |-> FALSE, workers |-> <<>>, after |-> 0]

-----------------------------------------------------------------------------
(* ProcessingTracker (src/utils/tracker.py) *)

LogEntry(level, message, exception) ==
    [level |-> level, message |-> message, exception |-> exception]

\* ProcessingTracker.__init__
NewTracker(log_to_console) ==
    [log_to_console |-> log_to_console, entries |-> <<>>, errors |-> <<>>, warnings |-> <<>>]

\* a message: the fixed text of the f-string and the path or name it formats
Msg(text, arg) == [text |-> text, arg |-> arg]

\* a slip: critical entries left out of the errors list
create_entry_error_only(tr, level, message, exception) ==
    LET entry == LogEntry(level, message, exception)
    IN  [tr EXCEPT !.entries = Append(@, entry),
                   !.errors = IF level = "ERROR" THEN Append(@, entry) ELSE @,
                   !.warnings = IF level = "WARNING" THEN Append(@, entry) ELSE @]

\* _create_entry: append to entries, and to errors or warnings by level
create_entry(tr, level, message, exception) ==
    LET entry == LogEntry(level, message, exception)
    IN  [tr EXCEPT !.entries = Append(@, entry),
                   !.errors = IF level = "ERROR" \/ level = "CRITICAL"
                              THEN Append(@, entry) ELSE @,
                   !.warnings = IF ~(level = "ERROR" \/ level = "CRITICAL") /\ level = "WARNING"
                                THEN Append(@, entry) ELSE @]

\* _output: print(str(entry)) when log_to_console; the write fails when the
\* console does not take it (sinkOk = FALSE), and the exception is not caught.
\* The logging module swallows the file handler's own errors.
output_raises(tr, sinkOk) == tr.log_to_console /\ ~sinkOk

log_debug(tr, message) == create_entry(tr, "DEBUG", message, None)
log_info(tr, message) == create_entry(tr, "INFO", message, None)
log_warning(tr, message) == create_entry(tr, "WARNING", message, None)
log_error(tr, message, exception) == create_entry(tr, "ERROR", message, exception)
log_critical(tr, message, exception) == create_entry(tr, "CRITICAL", message, exception)

get_error_count(tr) == Len(tr.errors)
get_warning_count(tr) == Len(tr.warnings)

\* get_errors_report: the fixed text when there are no errors, else the numbered
\* errors and their total
get_errors_report(tr) ==
    IF tr.errors = <<>>
    THEN [text |-> "No errors recorded.", items |-> <<>>, total |-> 0]
    ELSE [text |-> "ERROR REPORT",
          items |-> [i \in DOMAIN tr.errors |->
                        [n |-> i, message |-> tr.errors[i].message,
                         exception |-> tr.errors[i].exception]],
          total |-> Len(tr.errors)]

\* a slip: clear forgets the errors list
clear_entries_only(tr) == [tr EXCEPT !.entries = <<>>, !.warnings = <<>>]

\* clear: the three lists emptied
clear(tr) == [tr EXCEPT !.entries = <<>>, !.errors = <<>>, !.warnings = <<>>]

\* the number of failed console writes among the log calls an action made:
\* calls is a sequence of <<made, sinkOk>>
Fails(tr, calls) ==
    Cardinality({i \in DOMAIN calls : calls[i][1] /\ output_raises(tr, calls[i][2])})

-----------------------------------------------------------------------------
(* FileProcessor (src/modules/file_processor.py) *)

\* a slip: the identifier of a FileResult derived from its folder's
FileResult_guid_of_folder(file_guid, filename, filepath, folder_guid, status, file_type, file_size, error_message, metadata) ==
    [file_guid |-> folder_guid, filename |-> filename, filepath |-> filepath,
     folder_guid |-> folder_guid, status |-> status, file_type |-> file_type,
     file_size |-> file_size, error_message |-> error_message, metadata |-> metadata]

FileResult(file_guid, filename, filepath, folder_guid, status, file_type, file_size, error_message, metadata) ==
    [file_guid |-> file_guid, filename |-> filename, filepath |-> filepath,
     folder_guid |-> folder_guid, status |-> status, file_type |-> file_type,
     file_size |-> file_size, error_message |-> error_message, metadata |-> metadata]

FolderResult(folder_guid, folder_path, folder_name, total_files, processed_files, error_files, skipped_files, file_results) ==
    [folder_guid |-> folder_guid, folder_path |-> folder_path, folder_name |-> folder_name,
     total_files |-> total_files, processed_files |-> processed_files,
     error_files |-> error_files, skipped_files |-> skipped_files,
     file_results |-> file_results]

FolderInfo(guid, path, file_list, depth) ==
    [guid |-> guid, path |-> path, name |-> basename(path), file_count |-> Len(file_list),
     files |-> file_list, parent_path |-> SubSeq(path, 1, Len(path) - 1), depth |-> depth]

\* what the file system can answer for one file
\* os.path.getsize: a size, or OSError (None)
SizeOutcomes == {None, Some(5)}
\* _extract_metadata: "ok"; "oserror": os.stat raises OSError; "raise": an
\* exception that is no OSError (datetime.fromtimestamp on a time stamp out of range)
ExtractOutcomes == {"ok", "oserror", "raise"}

E_sink == "console write failed"
E_time == "timestamp out of range"

\* a slip: a failed size stat recorded as -1
getsize_minus_one(sz) == IF sz = None THEN 0 - 1 ELSE sz[1]

\* lines 194-197: the size, 0 when os.path.getsize raises OSError
getsize_or_zero(sz) == IF sz = None THEN 0 ELSE sz[1]

_get_file_type(filepath) == lstrip_dot(lower(splitext_ext(basename(filepath))))

\* the keys of the metadata dict _extract_metadata returns (ex # "raise")
_extract_metadata(file_type, ex) ==
    {"extracted_at"}
    \cup (IF ex = "ok" THEN {"created", "modified", "accessed"} ELSE {})
    \cup (IF file_type = <<"p", "d", "f">> THEN {"page_count", "pdf_version"} ELSE {})

\* _process_file, for the answers sz (getsize), ex (extraction) and the console's
\* answers to its two log calls.  raised: an exception leaves _process_file.
_process_file(tr, filepath, folder_guid, guid, sz, ex, ok199, ok217) ==
    LET filename == basename(filepath)
        file_type == _get_file_type(filepath)
        file_size == getsize_or_zero(sz)
        tr1 == log_info(tr, Msg("Processing file", <<filename>>))
        tr2 == log_error(tr1, Msg("Error processing", <<filename>>), Some(E_time))
    IN  IF output_raises(tr1, ok199)
        THEN [raised |-> TRUE, exc |-> E_sink, tr |-> tr1, extract |-> "notrun",
              result |-> None]
        ELSE IF ex # "raise"
        THEN [raised |-> FALSE, exc |-> "", tr |-> tr1, extract |-> ex,
              result |-> FileResult(guid, filename, filepath, folder_guid, "completed",
                                    file_type, file_size, None,
                                    _extract_metadata(file_type, ex))]
        ELSE IF output_raises(tr2, ok217)
        THEN [raised |-> TRUE, exc |-> E_sink, tr |-> tr2, extract |-> ex,
              result |-> None]
        ELSE [raised |-> FALSE, exc |-> "", tr |-> tr2, extract |-> ex,
              result |-> FileResult(guid, filename, filepath, folder_guid, "error",
                                    file_type, file_size, Some(E_time), {})]

\* a slip: the except branch forgets the error message
outer_catch_result_no_message(guid, filename, filepath, folder_guid, e) ==
    FileResult(guid, filename, filepath, folder_guid, "error",
               _get_file_type(filepath), 0, None, {})

\* the FileResult of process_folder's own except branch (lines 150-159)
outer_catch_result(guid, filename, filepath, folder_guid, e) ==
    FileResult(guid, filename, filepath, folder_guid, "error",
               _get_file_type(filepath), 0, Some(e), {})

\* a slip: error results are not counted
count_status_no_error(p, status) ==
    [p EXCEPT !.processed_count = IF status = "completed" THEN @ + 1 ELSE @,
              !.skipped_count = IF status \notin {"completed", "error"} /\ status = "skipped"
                                THEN @ + 1 ELSE @]

\* process_folder's counters after one FileResult (lines 140-145)
count_status(p, status) ==
    [p EXCEPT !.processed_count = IF status = "completed" THEN @ + 1 ELSE @,
              !.error_count = IF status # "completed" /\ status = "error" THEN @ + 1 ELSE @,
              !.skipped_count = IF status \notin {"completed", "error"} /\ status = "skipped"
                                THEN @ + 1 ELSE @]

\* lines 138-145: keep the FileResult _process_file returned and count it
record_result(p, result) ==
    [count_status(p, result.status) EXCEPT !.file_results = Append(@, result), !.k = @ + 1]

\* a slip: the except branch counts the error and loses the entry
catch_file_dropped(p, result) ==
    [p EXCEPT !.error_count = @ + 1, !.k = @ + 1]

\* lines 149-159: count an error and keep the FileResult built in the except branch
catch_file(p, result) ==
    [p EXCEPT !.error_count = @ + 1, !.file_results = Append(@, result), !.k = @ + 1]

\* FileProcessor.__init__, and the locals of process_folder at its start
NewProcessor ==
    [pc |-> "idle", folders |-> <<>>, results |-> <<>>, fi |-> 1, k |-> 1,
     file_results |-> <<>>, processed_count |-> 0, error_count |-> 0, skipped_count |-> 0,
     \* process_folder was called on its own, not by process_folders
     alone |-> FALSE]

\* the for loop of process_folders moves to the next folder, or returns self.results
next_folder(p, results) ==
    [NewProcessor EXCEPT !.pc = IF p.fi + 1 > Len(p.folders) THEN "returned" ELSE "begin",
                         !.folders = p.folders, !.results = results, !.fi = p.fi + 1]

\* the except branch of process_folders (lines 111-112): log, and go on with the
\* next folder; a failing console write leaves process_folders as an exception
catch_folder(p, tr, e, ok112) ==
    LET tr2 == log_error(tr, Msg("Failed to process folder", p.folders[p.fi].path), Some(e))
    IN  IF p.alone
        THEN \* process_folder called on its own: the exception goes to its caller
             [tr |-> tr, proc |-> [p EXCEPT !.pc = "raised"]]
        ELSE [tr |-> tr2,
              proc |-> IF output_raises(tr2, ok112)
                       THEN [p EXCEPT !.pc = "raised"]
                       ELSE next_folder(p, p.results)]

\* a slip: the results of the call before are kept
process_folders_keeping_results(input) ==
    /\ proc.pc \in {"idle", "returned", "raised"}
    /\ proc' = [NewProcessor EXCEPT !.pc = IF input = <<>> THEN "returned" ELSE "begin",
                                    !.folders = input, !.results = proc.results]

\* process_folders(folders), up to the first folder (line 105)
process_folders(input) ==
    /\ proc.pc \in {"idle", "returned", "raised"}
    /\ proc' = [NewProcessor EXCEPT !.pc = IF input = <<>> THEN "returned" ELSE "begin",
                                    !.folders = input]

\* process_folder, lines 126-131
FolderBegin ==
    /\ proc.pc = "begin"
    /\ \E ok126, ok112 \in BOOLEAN :
        LET folder == proc.folders[proc.fi]
            tr1 == log_info(tracker, Msg("Processing folder", folder.path))
            raised == output_raises(tr1, ok126)
            c == catch_folder(proc, tr1, E_sink, ok112)
            nfail == Fails(tracker, <<(<<TRUE, ok126>>), (<<raised /\ ~proc.alone, ok112>>)>>)
        IN  /\ sinkFails + nfail <= MaxSinkFail
            /\ sinkFails' = sinkFails + nfail
            /\ IF raised
               THEN tracker' = c.tr /\ proc' = c.proc
               ELSE tracker' = tr1 /\ proc' = [proc EXCEPT !.pc = "files"]
    /\ UNCHANGED <<config, nextGuid, fileObs, fs, scanner, ret, cli, threads, gui>>

\* one iteration of process_folder's file loop, lines 133-159
ProcessFile ==
    /\ proc.pc = "files"
    /\ proc.k <= Len(proc.folders[proc.fi].files)
    /\ \E sz \in SizeOutcomes, ex \in ExtractOutcomes, ok199, ok217, ok148, ok112 \in BOOLEAN :
        LET folder == proc.folders[proc.fi]
            filename == folder.files[proc.k]
            filepath == path_join(folder.path, filename)
            r == _process_file(tracker, filepath, folder.guid, nextGuid, sz, ex, ok199, ok217)
            tr3 == log_error(r.tr, Msg("Exception processing file", <<filename>>), Some(r.exc))
            raised148 == r.raised /\ output_raises(tr3, ok148)
            c == catch_folder(proc, tr3, E_sink, ok112)
            fr == IF r.raised
                  THEN outer_catch_result(nextGuid, filename, filepath, folder.guid, r.exc)
                  ELSE r.result
            nfail == Fails(tracker, <<(<<TRUE, ok199>>),
                                      (<<~output_raises(tracker, ok199) /\ ex = "raise", ok217>>),
                                      (<<r.raised, ok148>>), (<<raised148 /\ ~proc.alone, ok112>>)>>)
            obs == [folder_guid |-> folder.guid, filename |-> filename,
                    size |-> IF sz = None THEN "oserror" ELSE "ok",
                    extract |-> r.extract,
                    file_guid |-> IF raised148 THEN 0 ELSE nextGuid]
        IN  /\ sinkFails + nfail <= MaxSinkFail
            /\ sinkFails' = sinkFails + nfail
            /\ fileObs' = Append(fileObs, obs)
            /\ IF raised148
               THEN /\ tracker' = c.tr
                    /\ proc' = c.proc
                    /\ nextGuid' = nextGuid
               ELSE /\ tracker' = IF r.raised THEN tr3 ELSE r.tr
                    /\ nextGuid' = nextGuid + 1
                    /\ proc' = IF r.raised THEN catch_file(proc, fr) ELSE record_result(proc, fr)
    /\ UNCHANGED <<config, fs, scanner, ret, cli, threads, gui>>

\* the end of process_folder (lines 161-178) and the append of line 110
FolderEnd ==
    /\ proc.pc = "files"
    /\ proc.k > Len(proc.folders[proc.fi].files)
    /\ \E ok173, ok112 \in BOOLEAN :
        LET folder == proc.folders[proc.fi]
            folder_result == FolderResult(folder.guid, folder.path, folder.name,
                                          Len(folder.files), proc.processed_count,
                                          proc.error_count, proc.skipped_count,
                                          proc.file_results)
            tr1 == log_info(tracker, Msg("Folder complete", <<>>))
            raised == output_raises(tr1, ok173)
            c == catch_folder(proc, tr1, E_sink, ok112)
            nfail == Fails(tracker, <<(<<TRUE, ok173>>), (<<raised /\ ~proc.alone, ok112>>)>>)
        IN  /\ sinkFails + nfail <= MaxSinkFail
            /\ sinkFails' = sinkFails + nfail
            /\ IF raised
               THEN tracker' = c.tr /\ proc' = c.proc
               ELSE tracker' = tr1
                    /\ proc' = next_folder(proc, IF proc.alone THEN proc.results
                                                 ELSE Append(proc.results, folder_result))
    /\ UNCHANGED <<config, nextGuid, fileObs, fs, scanner, ret, cli, threads, gui>>

-----------------------------------------------------------------------------
(* FolderScanner (src/modules/folder_scanner.py) *)

(* The file system is observed on demand.  fs maps the path of every directory   *)
(* whose entries were asked for to what it holds: the entries in the order       *)
(* iterdir yields them, each a name with its kind, and err: "ok", "perm"         *)
(* (iterdir raises PermissionError) or "io" (iterdir raises another OSError).    *)
(* The kind of an entry is "file", "dir" or "denied": an entry whose stat raises *)
(* PermissionError, so that is_file() and is_dir() raise on it (a link into a    *)
(* directory that may not be searched, a locked file).                           *)
(* A directory that was never asked may hold anything.  A tree does not change   *)
(* once observed, so a later scan finds the same entries.                        *)

Entry(name, kind) == [name |-> name, kind |-> kind]

Dir(entries, err) == [entries |-> entries, err |-> err]

NoDirs == [p \in {} |-> Dir(<<>>, "ok")]

FileMenus == { <<>>, <<N_n_tmp, N_h_pdf>>, <<N_n_tmp, N_B_PDF, N_x, N_a_pdf>> }

\* N_d_csv names a directory here: a directory called "d.csv"
DirMenus == { <<>>, <<N_git, N_sub>>, <<N_sub, N_d_csv>> }

Listing(file_names, dir_names) ==
    [i \in 1..Len(file_names) |-> Entry(file_names[i], "file")]
    \o [i \in 1..Len(dir_names) |-> Entry(dir_names[i], "dir")]

\* listings with an entry whose stat is denied, first or in the middle
DeniedMenus ==
    { <<Entry(N_lnk, "denied"), Entry(N_a_pdf, "file"), Entry(N_sub, "dir")>>,
      <<Entry(N_a_pdf, "file"), Entry(N_sub, "dir"), Entry(N_lnk, "denied"),
        Entry(N_c_txt, "file"), Entry(N_docs, "dir")>> }

\* is_file() / is_dir() raises PermissionError on some item of the loop
stat_denied(entries) == \E i \in DOMAIN entries : entries[i].kind = "denied"

\* the directory fails: iterdir raises, or the stat of an entry does
dir_fails(d) == d.err # "ok" \/ stat_denied(d.entries)

\* what a directory may turn out to hold when its entries are first asked for;
\* at most one directory of a tree fails.  A directory entry named "lnk" is a
\* link to the directory that holds it, so it lists what that directory lists.
DirChoices(folder) ==
    IF folder \in DOMAIN fs THEN {fs[folder]}
    ELSE IF Last(folder) = N_lnk /\ SubSeq(folder, 1, Len(folder) - 1) \in DOMAIN fs
    THEN {fs[SubSeq(folder, 1, Len(folder) - 1)]}
    ELSE IF Cardinality(DOMAIN fs) >= MaxDirs THEN {Dir(<<>>, "ok")}
    ELSE {Dir(Listing(f, d), "ok") : f \in FileMenus, d \in DirMenus}
         \cup (IF \A p \in DOMAIN fs : ~dir_fails(fs[p])
               THEN {Dir(<<>>, "perm"), Dir(<<>>, "io")}
                    \cup {Dir(e, "ok") : e \in DeniedMenus}
               ELSE {})

Root == <<N_root>>

\* a call of scan or _scan_recursive in progress: the directory, its depth, the
\* subdirectories the loop of line 106 has still to recurse into, and whether the
\* loop ends in the PermissionError of is_dir() after them.  The bottom frame is
\* scan itself, which calls _scan_recursive(root, 0).
Frame(folder, depth, todo, fail) ==
    [folder |-> folder, depth |-> depth, todo |-> todo, fail |-> fail]

\* FolderScanner.__init__
NewScanner ==
    [pc |-> "idle", scanned_folders |-> <<>>, stack |-> <<>>, exc |-> None, error |-> "",
     \* history: what the root path was when scan was called, and the directories
     \* the scan has enumerated
     rootKind |-> "", listed |-> {}]

\* the body of the loop of _get_processable_files (lines 121-127): whether item is kept
is_processable(cfg, folder, item) ==
    /\ item.kind = "file"
    /\ ~(cfg.skip_hidden_files /\ startswith_dot(item.name))
    /\ is_supported_file(path_join(folder, item.name))

\* _get_processable_files, on the entries iterdir yields (lines 117-132): the
\* PermissionError of is_file() ends the loop and is passed over, what was
\* gathered before it is returned
RECURSIVE _get_processable_files(_, _, _)
_get_processable_files(cfg, folder, entries) ==
    IF entries = <<>> \/ Head(entries).kind = "denied" THEN <<>>
    ELSE (IF is_processable(cfg, folder, Head(entries)) THEN <<Head(entries).name>> ELSE <<>>)
         \o _get_processable_files(cfg, folder, Tail(entries))

\* the items of lines 106-107 that are directories, in the order of iterdir, up to
\* the item on which is_dir() raises
RECURSIVE subdirectories(_)
subdirectories(entries) ==
    IF entries = <<>> \/ Head(entries).kind = "denied" THEN <<>>
    ELSE (IF Head(entries).kind = "dir" THEN <<Head(entries).name>> ELSE <<>>)
         \o subdirectories(Tail(entries))

\* a slip: the new Folder is put in front of the list
add_folder_in_front(scanned_folders, folder_info) == <<folder_info>> \o scanned_folders

\* self.scanned_folders.append(folder_info), line 102
add_folder(scanned_folders, folder_info) == Append(scanned_folders, folder_info)

\* a slip: the recursion placed under "if processable_files:"
children_only_if_found(processable_files, entries) ==
    IF processable_files # <<>> THEN subdirectories(entries) ELSE <<>>

\* lines 105-108: the loop recurses into every subdirectory, whether or not the
\* directory itself has processable files
children_to_visit(processable_files, entries) == subdirectories(entries)

\* a slip: the limit taken one level too late
depth_exceeded_late(cfg, depth) == depth > cfg.max_depth + 1

\* a slip: the limit taken one level too early
depth_reached(cfg, depth) == depth >= cfg.max_depth

\* line 80
depth_exceeded(cfg, depth) == depth > cfg.max_depth

\* a slip: the hidden check left out
skip_nothing(cfg, folder) == FALSE

\* line 86
skip_hidden(cfg, folder) == cfg.skip_hidden_folders /\ startswith_dot(basename(folder))

\* the calls that have finished their loop return (the bottom frame stays)
RECURSIVE return_finished(_)
return_finished(stack) ==
    IF Len(stack) > 1 /\ Last(stack).todo = <<>> /\ ~Last(stack).fail
    THEN return_finished(SubSeq(stack, 1, Len(stack) - 1))
    ELSE stack

\* get_summary
scan_summary(sc) ==
    [total_folders |-> Len(sc.scanned_folders),
     total_files |-> SumSeq([i \in DOMAIN sc.scanned_folders |-> sc.scanned_folders[i].file_count])]

RootKinds == {"dir", "missing", "file"}

\* scan(root_path), lines 61-72, up to the call of _scan_recursive(root, 0)
Scan ==
    /\ scanner.pc = "idle"
    /\ \E kind \in RootKinds, sinkOk \in BOOLEAN :
        LET tr1 == IF kind = "missing"
                   THEN log_error(tracker, Msg("Root path does not exist", Root), None)
                   ELSE IF kind = "file"
                   THEN log_error(tracker, Msg("Root path is not a directory", Root), None)
                   ELSE log_info(tracker, Msg("Starting scan of", Root))
            raised == output_raises(tr1, sinkOk)
            nfail == Fails(tracker, << <<TRUE, sinkOk>> >>)
            started == [scanner EXCEPT !.scanned_folders = <<>>, !.rootKind = kind]
        IN  \* a root whose entries are known is a directory
            /\ Root \in DOMAIN fs => kind = "dir"
            \* and the root is what it was at an earlier scan of the tree
            /\ scanner.rootKind # "" => kind = scanner.rootKind
            /\ sinkFails + nfail <= MaxScanSinkFail
            /\ sinkFails' = sinkFails + nfail
            /\ tracker' = tr1
            /\ scanner' =
                 IF raised THEN [started EXCEPT !.pc = "raised", !.error = E_sink]
                 ELSE IF kind = "missing"
                 THEN [started EXCEPT !.pc = "raised", !.error = "FileNotFoundError"]
                 ELSE IF kind = "file"
                 THEN [started EXCEPT !.pc = "raised", !.error = "NotADirectoryError"]
                 ELSE [started EXCEPT !.pc = "scanning",
                                      !.stack = <<Frame(<<>>, 0 - 1, Root, FALSE)>>]
    /\ UNCHANGED <<config, nextGuid, proc, fileObs, fs, ret, cli, threads, gui>>

\* one call _scan_recursive(folder, depth), lines 80-113, up to its first
\* recursive call or its return
Visit ==
    /\ scanner.pc = "scanning"
    /\ scanner.exc = None
    /\ Last(scanner.stack).todo # <<>>
    /\ LET caller == Last(scanner.stack)
           folder == path_join(caller.folder, Head(caller.todo))
           depth == caller.depth + 1
           rest == [scanner.stack EXCEPT ![Len(scanner.stack)].todo = Tail(@)]
       IN  IF depth_exceeded(config, depth)
           THEN \E okWarn \in BOOLEAN :
                LET tr1 == log_warning(tracker, Msg("Max depth reached at", folder))
                    raised == output_raises(tr1, okWarn)
                    nfail == Fails(tracker, << <<TRUE, okWarn>> >>)
                IN  /\ sinkFails + nfail <= MaxScanSinkFail
                    /\ sinkFails' = sinkFails + nfail
                    /\ tracker' = tr1
                    /\ scanner' = [scanner EXCEPT
                                     !.stack = IF raised THEN rest ELSE return_finished(rest),
                                     !.exc = IF raised THEN Some(E_sink) ELSE None]
                    /\ UNCHANGED <<fs, nextGuid>>
           ELSE IF skip_hidden(config, folder)
           THEN /\ scanner' = [scanner EXCEPT !.stack = return_finished(rest)]
                /\ UNCHANGED <<fs, nextGuid, tracker, sinkFails>>
           ELSE \E d \in DirChoices(folder), okFound, okErr \in BOOLEAN :
                LET processable_files ==
                        IF d.err = "ok" THEN _get_processable_files(config, folder, d.entries)
                        ELSE <<>>
                    found == processable_files # <<>>
                    folder_info == FolderInfo(nextGuid, folder, processable_files, depth)
                    tr1 == IF found
                           THEN log_info(tracker, Msg("Found folder", <<basename(folder)>>))
                           ELSE tracker
                    raisedFound == found /\ output_raises(tr1, okFound)
                    caught == d.err # "ok" \/ raisedFound
                    tr2 == IF d.err = "perm"
                           THEN log_error(tr1, Msg("Permission denied accessing", folder),
                                          Some("PermissionError"))
                           ELSE IF d.err = "io"
                           THEN log_error(tr1, Msg("Error scanning folder", folder),
                                          Some("OSError"))
                           ELSE IF raisedFound
                           THEN log_error(tr1, Msg("Error scanning folder", folder),
                                          Some(E_sink))
                           ELSE tr1
                    raisedErr == caught /\ output_raises(tr2, okErr)
                    nfail == Fails(tracker, << <<found, okFound>>, <<caught, okErr>> >>)
                    pushed == Append(rest, Frame(folder, depth,
                                                children_to_visit(processable_files, d.entries),
                                                stat_denied(d.entries)))
                IN  /\ sinkFails + nfail <= MaxScanSinkFail
                    /\ sinkFails' = sinkFails + nfail
                    /\ tracker' = tr2
                    /\ fs' = IF folder \in DOMAIN fs THEN fs ELSE (folder :> d) @@ fs
                    /\ nextGuid' = IF found THEN nextGuid + 1 ELSE nextGuid
                    /\ scanner' = [scanner EXCEPT
                         !.scanned_folders = IF found THEN add_folder(@, folder_info) ELSE @,
                         !.listed = @ \cup {folder},
                         !.stack = IF raisedErr THEN rest
                                   ELSE IF caught THEN return_finished(rest)
                                   ELSE return_finished(pushed),
                         !.exc = IF raisedErr THEN Some(E_sink) ELSE None]
    /\ UNCHANGED <<config, proc, fileObs, ret, cli, threads, gui>>

\* the loop of line 106 of the innermost call comes to the item on which is_dir()
\* raises PermissionError: caught at line 110 and logged, the call returns
LoopRaises ==
    /\ scanner.pc = "scanning"
    /\ scanner.exc = None
    /\ Len(scanner.stack) > 1
    /\ Last(scanner.stack).todo = <<>>
    /\ Last(scanner.stack).fail
    /\ \E okErr \in BOOLEAN :
        LET rest == SubSeq(scanner.stack, 1, Len(scanner.stack) - 1)
            tr1 == log_error(tracker, Msg("Permission denied accessing",
                                          Last(scanner.stack).folder),
                             Some("PermissionError"))
            raised == output_raises(tr1, okErr)
            nfail == Fails(tracker, << <<TRUE, okErr>> >>)
        IN  /\ sinkFails + nfail <= MaxScanSinkFail
            /\ sinkFails' = sinkFails + nfail
            /\ tracker' = tr1
            /\ scanner' = [scanner EXCEPT
                             !.stack = IF raised THEN rest ELSE return_finished(rest),
                             !.exc = IF raised THEN Some(E_sink) ELSE None]
    /\ UNCHANGED <<config, nextGuid, proc, fileObs, fs, ret, cli, threads, gui>>

\* an exception leaves a call of _scan_recursive: its caller catches it at line 112
\* and logs it, which ends the caller's loop; scan itself catches nothing
Unwind ==
    /\ scanner.pc = "scanning"
    /\ scanner.exc # None
    /\ IF Len(scanner.stack) = 1
       THEN /\ scanner' = [scanner EXCEPT !.pc = "raised", !.error = scanner.exc[1],
                                          !.exc = None, !.stack = <<>>]
            /\ UNCHANGED <<tracker, sinkFails>>
       ELSE \E okErr \in BOOLEAN :
            LET catcher == Last(scanner.stack)
                rest == SubSeq(scanner.stack, 1, Len(scanner.stack) - 1)
                tr1 == log_error(tracker, Msg("Error scanning folder", catcher.folder),
                                 scanner.exc)
                raised == output_raises(tr1, okErr)
                nfail == Fails(tracker, << <<TRUE, okErr>> >>)
            IN  /\ sinkFails + nfail <= MaxScanSinkFail
                /\ sinkFails' = sinkFails + nfail
                /\ tracker' = tr1
                /\ scanner' = [scanner EXCEPT
                                 !.stack = IF raised THEN rest ELSE return_finished(rest),
                                 !.exc = IF raised THEN Some(E_sink) ELSE None]
    /\ UNCHANGED <<config, nextGuid, proc, fileObs, fs, ret, cli, threads, gui>>

\* scan, lines 74-76, after _scan_recursive(root, 0) has returned
ScanReturn ==
    /\ scanner.pc = "scanning"
    /\ scanner.exc = None
    /\ Len(scanner.stack) = 1
    /\ Last(scanner.stack).todo = <<>>
    /\ \E sinkOk \in BOOLEAN :
        LET tr1 == log_info(tracker, Msg("Scan complete", <<>>))
            raised == output_raises(tr1, sinkOk)
            nfail == Fails(tracker, << <<TRUE, sinkOk>> >>)
        IN  /\ sinkFails + nfail <= MaxScanSinkFail
            /\ sinkFails' = sinkFails + nfail
            /\ tracker' = tr1
            /\ scanner' = [scanner EXCEPT !.pc = IF raised THEN "raised" ELSE "done",
                                          !.error = IF raised THEN E_sink ELSE "",
                                          !.stack = <<>>]
    /\ UNCHANGED <<config, nextGuid, proc, fileObs, fs, ret, cli, threads, gui>>

-----------------------------------------------------------------------------
(* The scanner on its own: one scan of a tree *)

Configs ==
    [max_depth : 0..MaxDepthCfg, skip_hidden_folders : BOOLEAN, skip_hidden_files : BOOLEAN]

InitScan ==
    /\ config \in Configs
    /\ tracker \in {NewTracker(b) : b \in BOOLEAN}
    /\ nextGuid = 1
    /\ sinkFails = 0
    /\ proc = NewProcessor
    /\ fileObs = <<>>
    /\ fs = NoDirs
    /\ scanner = NewScanner
    /\ ret = None
    /\ cli = NewCli
    /\ threads = NoThreads
    /\ gui = NoGui

NextScan == Scan \/ Visit \/ LoopRaises \/ Unwind \/ ScanReturn

SpecScan == InitScan /\ [][NextScan]_vars

-----------------------------------------------------------------------------
(* One scan of a deeper tree: sibling subtrees, and directory links that form  *)
(* a cycle.  The scan is a sequential computation that goes on until it        *)
(* returns or raises.                                                          *)

\* a root with two subtrees, one of them two levels deep; a root that holds a
\* link to itself; a subtree that holds a link to itself, and a sibling of it;
\* a root with an entry whose stat is denied after a subdirectory
DeepTrees ==
    { (Root :> Dir(Listing(<<N_a_pdf>>, <<N_sub, N_docs>>), "ok"))
        @@ (path_join(Root, N_sub) :> Dir(Listing(<<N_a_pdf>>, <<N_x>>), "ok"))
        @@ (path_join(path_join(Root, N_sub), N_x) :> Dir(Listing(<<N_B_PDF>>, <<>>), "ok"))
        @@ (path_join(Root, N_docs) :> Dir(Listing(<<N_a_pdf>>, <<>>), "ok")),
      (Root :> Dir(Listing(<<N_a_pdf>>, <<N_lnk>>), "ok")),
      (Root :> Dir(Listing(<<>>, <<N_sub, N_docs>>), "ok"))
        @@ (path_join(Root, N_sub) :> Dir(Listing(<<N_a_pdf>>, <<N_lnk>>), "ok"))
        @@ (path_join(Root, N_docs) :> Dir(Listing(<<N_B_PDF>>, <<>>), "ok")),
      (Root :> Dir(Listing(<<N_a_pdf>>, <<N_sub>>) \o <<Entry(N_lnk, "denied")>>, "ok"))
        @@ (path_join(Root, N_sub) :> Dir(Listing(<<N_B_PDF>>, <<>>), "ok")) }

InitDeep ==
    /\ config \in [max_depth : 1..MaxTreeDepth, skip_hidden_folders : {TRUE},
                    skip_hidden_files : {TRUE}]
    /\ tracker \in {NewTracker(b) : b \in BOOLEAN}
    /\ nextGuid = 1
    /\ sinkFails = 0
    /\ proc = NewProcessor
    /\ fileObs = <<>>
    /\ fs \in DeepTrees
    /\ scanner = NewScanner
    /\ ret = None
    /\ cli = NewCli
    /\ threads = NoThreads
    /\ gui = NoGui

NextDeep == Scan \/ Visit \/ LoopRaises \/ Unwind \/ ScanReturn

SpecDeep == InitDeep /\ [][NextDeep]_vars /\ WF_vars(NextDeep)

-----------------------------------------------------------------------------
(* The same tree scanned twice: on the same scanner, or on a second scanner    *)
(* with the same configuration and tracker                                     *)

\* what the first scan left: its Folders, whether it raised, and the guid the
\* next Folder will get
FirstScan(sc, sameScanner) ==
    [folders |-> sc.scanned_folders, raised |-> sc.pc = "raised", guid0 |-> nextGuid,
     sameScanner |-> sameScanner]

\* the first scan is over and scan is about to be called again; the tree is
\* the same, and so is what the root path names
Rescan ==
    /\ scanner.pc \in {"done", "raised"}
    /\ ret = None
    /\ \E sameScanner \in BOOLEAN :
        /\ ret' = Some(FirstScan(scanner, sameScanner))
        /\ scanner' = [NewScanner EXCEPT
                          !.scanned_folders = IF sameScanner THEN scanner.scanned_folders
                                              ELSE <<>>,
                          !.rootKind = scanner.rootKind]
    /\ UNCHANGED <<config, tracker, nextGuid, sinkFails, proc, fileObs, fs, cli, threads, gui>>

\* the deepest configuration, hidden files skipped as by default
InitRescan ==
    /\ InitScan
    /\ config.max_depth = MaxDepthCfg
    /\ config.skip_hidden_files

NextRescan == Scan \/ Visit \/ LoopRaises \/ Unwind \/ ScanReturn \/ Rescan

SpecRescan == InitRescan /\ [][NextRescan]_vars

-----------------------------------------------------------------------------
(* Floating point: a binary float is m * 2^e with m = 0 or 2^(MantBits-1) <= m < *)
(* 2^MantBits; every operation rounds its exact result to the nearest float,     *)
(* ties to even.  Python's float has 53 bits of mantissa; the model keeps the    *)
(* format and the rounding with a shorter mantissa.                              *)

RECURSIVE Pow2(_)
Pow2(n) == IF n = 0 THEN 1 ELSE 2 * Pow2(n - 1)

RECURSIVE BitLen(_)
BitLen(n) == IF n = 0 THEN 0 ELSE 1 + BitLen(n \div 2)

Float(m, e) == [m |-> m, e |-> e]

FloatZero == Float(0, 0)

\* n / 2^s rounded to the nearest integer, ties to even
RoundShift(n, s) ==
    LET q == n \div Pow2(s)
        r == n % Pow2(s)
        half == Pow2(s - 1)
    IN  IF r > half \/ (r = half /\ q % 2 = 1) THEN q + 1 ELSE q

\* the float nearest to n * 2^e, for an integer n > 0
RoundToFloat(n, e) ==
    LET s == BitLen(n) - MantBits
    IN  IF s <= 0 THEN Float(n * Pow2(0 - s), e + s)
        ELSE LET q == RoundShift(n, s)
             IN  IF q = Pow2(MantBits) THEN Float(Pow2(MantBits - 1), e + s + 1)
                 ELSE Float(q, e + s)

\* a / b for integers a >= 0, b > 0 (int / int in Python): the quotient is taken with
\* MantBits + 3 bits behind the point and a sticky bit, then rounded
TrueDiv(a, b) ==
    IF a = 0 THEN FloatZero
    ELSE LET k == MantBits + BitLen(b)
             q == (a * Pow2(k)) \div b
             sticky == IF (a * Pow2(k)) % b = 0 THEN 0 ELSE 1
         IN  RoundToFloat(2 * q + sticky, 0 - (k + 1))

\* x * n for a float x and an integer n > 0 that is itself a float
MulInt(x, n) == IF x.m = 0 THEN FloatZero ELSE RoundToFloat(x.m * n, x.e)

-----------------------------------------------------------------------------
(* FileProcessor.get_summary *)

\* a slip: the fraction returned without the factor 100
success_fraction(total_processed, total_files) ==
    IF total_files > 0 THEN TrueDiv(total_processed, total_files) ELSE FloatZero

\* line 276
success_rate(total_processed, total_files) ==
    IF total_files > 0 THEN MulInt(TrueDiv(total_processed, total_files), 100) ELSE FloatZero

\* FileResult.to_dict: the fields by name, the status by its value
file_to_dict(fr) ==
    [file_guid |-> fr.file_guid, filename |-> fr.filename, filepath |-> fr.filepath,
     folder_guid |-> fr.folder_guid, status |-> fr.status, file_type |-> fr.file_type,
     file_size |-> fr.file_size, error_message |-> fr.error_message,
     metadata |-> fr.metadata]

\* FolderResult.to_dict
folder_to_dict(r) ==
    [folder_guid |-> r.folder_guid, folder_path |-> r.folder_path,
     folder_name |-> r.folder_name, total_files |-> r.total_files,
     processed_files |-> r.processed_files, error_files |-> r.error_files,
     skipped_files |-> r.skipped_files,
     file_results |-> [i \in DOMAIN r.file_results |-> file_to_dict(r.file_results[i])]]

\* lines 263-279
get_summary(p) ==
    LET total_files == SumSeq([i \in DOMAIN p.results |-> p.results[i].total_files])
        total_processed == SumSeq([i \in DOMAIN p.results |-> p.results[i].processed_files])
        total_errors == SumSeq([i \in DOMAIN p.results |-> p.results[i].error_files])
        total_skipped == SumSeq([i \in DOMAIN p.results |-> p.results[i].skipped_files])
    IN  [total_folders |-> Len(p.results), total_files |-> total_files,
         total_processed |-> total_processed, total_errors |-> total_errors,
         total_skipped |-> total_skipped,
         success_rate |-> success_rate(total_processed, total_files),
         folder_results |-> [i \in DOMAIN p.results |-> folder_to_dict(p.results[i])]]

-----------------------------------------------------------------------------
(* OutputHandler (src/modules/output_handler.py) *)

\* a cell of a CSV row: the value put under a key; the empty string is EmptyCell
Cell(v) == <<v>>
EmptyCell == <<>>

\* the three cells every row of a folder starts with (lines 105-109)
folder_info_cells(folder) ==
    [folder_guid |-> Cell(folder.folder_guid), folder_name |-> Cell(folder.folder_name),
     folder_path |-> Cell(folder.folder_path)]

\* the row of a folder without file results (lines 115-124)
empty_folder_row(folder) ==
    LET fi == folder_info_cells(folder)
    IN  [folder_guid |-> fi.folder_guid, folder_name |-> fi.folder_name,
         folder_path |-> fi.folder_path,
         filename |-> EmptyCell, filepath |-> EmptyCell, status |-> EmptyCell,
         file_type |-> EmptyCell, file_size |-> EmptyCell, error_message |-> EmptyCell]

\* the row of one file result (lines 127-135)
file_row(folder, file_result) ==
    LET fi == folder_info_cells(folder)
    IN  [folder_guid |-> fi.folder_guid, folder_name |-> fi.folder_name,
         folder_path |-> fi.folder_path,
         filename |-> Cell(file_result.filename), filepath |-> Cell(file_result.filepath),
         status |-> Cell(file_result.status), file_type |-> Cell(file_result.file_type),
         file_size |-> Cell(file_result.file_size),
         error_message |-> Cell(file_result.error_message)]

\* a slip: a folder without file results gets no row
folder_rows_files_only(folder) ==
    [k \in DOMAIN folder.file_results |-> file_row(folder, folder.file_results[k])]

\* the rows one folder adds (lines 111-135)
folder_rows(folder) ==
    IF folder.file_results = <<>>
    THEN <<empty_folder_row(folder)>>
    ELSE [k \in DOMAIN folder.file_results |-> file_row(folder, folder.file_results[k])]

\* the loop of lines 104-135 over the folders
RECURSIVE rows_of(_)
rows_of(folder_results) ==
    IF folder_results = <<>> THEN <<>>
    ELSE folder_rows(Head(folder_results)) \o rows_of(Tail(folder_results))

\* _flatten_results(data)
_flatten_results(data) == rows_of(data.folder_results)

-----------------------------------------------------------------------------
(* The processor on its own: process_folders on a list of Folders *)

ProcFileNames == <<N_a_pdf, N_B_PDF, N_c_txt, N_d_csv>>
ProcDirNames == <<N_docs, N_sub, N_x>>

\* the numbers of files of the folders of one call
ProcInputs ==
    {c \in UNION {[1..n -> 0..MaxTotalFiles] : n \in 0..MaxFolders} :
        SumSeq(c) <= MaxTotalFiles}

\* the i-th Folder of an input: its guid fresh, its files the next names in turn
MakeFolder(c, i, guid0) ==
    LET off == SumSeq(SubSeq(c, 1, i - 1))
    IN  FolderInfo(guid0 + i - 1,
                   <<N_root, ProcDirNames[((i - 1) % Len(ProcDirNames)) + 1]>>,
                   [j \in 1..c[i] |-> ProcFileNames[((off + j - 1) % Len(ProcFileNames)) + 1]],
                   1)

DefaultConfig == [max_depth |-> 10, skip_hidden_folders |-> TRUE, skip_hidden_files |-> TRUE]

InitProc ==
    /\ config = DefaultConfig
    /\ tracker \in {NewTracker(b) : b \in BOOLEAN}
    /\ nextGuid = 1
    /\ sinkFails = 0
    /\ proc = NewProcessor
    /\ fileObs = <<>>
    /\ fs = NoDirs
    /\ scanner = NewScanner
    /\ ret = None
    /\ cli = NewCli
    /\ threads = NoThreads
    /\ gui = NoGui

ProcStart ==
    /\ proc.pc = "idle"
    /\ \E c \in ProcInputs :
        /\ process_folders([i \in 1..Len(c) |-> MakeFolder(c, i, nextGuid)])
        /\ nextGuid' = nextGuid + Len(c)
    /\ UNCHANGED <<config, tracker, sinkFails, fileObs, fs, scanner, ret, cli, threads, gui>>

NextProc == ProcStart \/ FolderBegin \/ ProcessFile \/ FolderEnd

SpecProc == InitProc /\ [][NextProc]_vars

-----------------------------------------------------------------------------
(* get_summary on its own: a processor that has returned a list of FolderResults *)

\* a FolderResult as process_folder builds it, with t files of which k failed (the
\* file results themselves do not matter to get_summary and are left out)
SummaryFolder(i, t, k) ==
    FolderResult(i, <<N_root, ProcDirNames[i]>>, ProcDirNames[i], t, t - k, k, 0, <<>>)

\* per folder, the number of files and how many of them failed
SummaryCounts == {c \in (0..MaxFolderFiles) \X (0..MaxFolderFiles) : c[2] <= c[1]}

SummaryInputs == UNION {[1..n -> SummaryCounts] : n \in 0..MaxSummaryFolders}

InitSummary ==
    /\ config = DefaultConfig
    /\ tracker \in {NewTracker(b) : b \in BOOLEAN}
    /\ nextGuid = 1
    /\ sinkFails = 0
    /\ \E c \in SummaryInputs :
        proc = [NewProcessor EXCEPT !.pc = "returned",
                  !.results = [i \in DOMAIN c |-> SummaryFolder(i, c[i][1], c[i][2])]]
    /\ fileObs = <<>>
    /\ fs = NoDirs
    /\ scanner = NewScanner
    /\ ret = None
    /\ cli = NewCli
    /\ threads = NoThreads
    /\ gui = NoGui

GetSummary ==
    /\ proc.pc = "returned"
    /\ ret' = Some(get_summary(proc))
    /\ UNCHANGED <<config, tracker, nextGuid, sinkFails, proc, fileObs, fs, scanner, cli, threads, gui>>

NextSummary == GetSummary

SpecSummary == InitSummary /\ [][NextSummary]_vars

-----------------------------------------------------------------------------
(* The tracker on its own: log_* and clear calls and queries from one thread *)

TrackerMessages == {Msg("a", <<>>), Msg("b", <<>>)}
TrackerExceptions == {None, Some("e")}

\* what a call did: its name, whether it raised, and the value it returned
Outcome(call, raised, value) == [call |-> call, raised |-> raised, value |-> value]

InitTracker ==
    /\ config = DefaultConfig
    /\ tracker \in {NewTracker(b) : b \in BOOLEAN}
    /\ nextGuid = 1
    /\ sinkFails = 0
    /\ proc = NewProcessor
    /\ fileObs = <<>>
    /\ fs = NoDirs
    /\ scanner = NewScanner
    /\ ret = None
    /\ cli = NewCli
    /\ threads = NoThreads
    /\ gui = NoGui

\* a log_* call: _create_entry, then _output, whose console write may raise
LogCall(call, tr1) ==
    /\ Len(tracker.entries) < MaxEntries
    /\ \E sinkOk \in BOOLEAN :
        /\ sinkFails + Fails(tracker, << <<TRUE, sinkOk>> >>) <= MaxSinkFail
        /\ sinkFails' = sinkFails + Fails(tracker, << <<TRUE, sinkOk>> >>)
        /\ tracker' = tr1
        /\ ret' = Some(Outcome(call, output_raises(tr1, sinkOk), None))
    /\ UNCHANGED <<config, nextGuid, proc, fileObs, fs, scanner, cli, threads, gui>>

LogDebug == \E m \in TrackerMessages : LogCall("log_debug", log_debug(tracker, m))

LogInfo == \E m \in TrackerMessages : LogCall("log_info", log_info(tracker, m))

LogWarning == \E m \in TrackerMessages : LogCall("log_warning", log_warning(tracker, m))

LogError ==
    \E m \in TrackerMessages, e \in TrackerExceptions :
        LogCall("log_error", log_error(tracker, m, e))

LogCritical ==
    \E m \in TrackerMessages, e \in TrackerExceptions :
        LogCall("log_critical", log_critical(tracker, m, e))

Clear ==
    /\ tracker' = clear(tracker)
    /\ ret' = Some(Outcome("clear", FALSE, None))
    /\ UNCHANGED <<config, nextGuid, sinkFails, proc, fileObs, fs, scanner, cli, threads, gui>>

GetCounts ==
    /\ ret' = Some(Outcome("get_counts", FALSE,
                           <<get_error_count(tracker), get_warning_count(tracker)>>))
    /\ UNCHANGED <<config, tracker, nextGuid, sinkFails, proc, fileObs, fs, scanner, cli, threads, gui>>

GetErrorsReport ==
    /\ ret' = Some(Outcome("get_errors_report", FALSE, get_errors_report(tracker)))
    /\ UNCHANGED <<config, tracker, nextGuid, sinkFails, proc, fileObs, fs, scanner, cli, threads, gui>>

NextTracker ==
    \/ LogDebug \/ LogInfo \/ LogWarning \/ LogError \/ LogCritical
    \/ Clear \/ GetCounts \/ GetErrorsReport

SpecTracker == InitTracker /\ [][NextTracker]_vars

-----------------------------------------------------------------------------
(* _flatten_results on its own: applied to the summary of a processor that has *)
(* returned a list of FolderResults                                            *)

FlattenStatuses == {"completed", "error"}

\* the statuses of the file results of each folder
FlattenInputs ==
    LET perFolder == UNION {[1..n -> FlattenStatuses] : n \in 0..MaxFolderFiles}
    IN  UNION {[1..n -> perFolder] : n \in 0..MaxSummaryFolders}

\* the j-th file result of the i-th folder, as process_folder gets it from
\* _process_file or builds it in its except branch
FlattenFile(i, j, status) ==
    LET folder_path == <<N_root, ProcDirNames[((i - 1) % Len(ProcDirNames)) + 1]>>
        filename == ProcFileNames[((j - 1) % Len(ProcFileNames)) + 1]
        filepath == path_join(folder_path, filename)
        guid == 100 * i + j
    IN  IF status = "completed"
        THEN _process_file(NewTracker(FALSE), filepath, i, guid, Some(5), "ok", TRUE, TRUE).result
        ELSE outer_catch_result(guid, filename, filepath, i, E_sink)

FlattenFolder(i, statuses) ==
    LET name == ProcDirNames[((i - 1) % Len(ProcDirNames)) + 1]
        ok == Cardinality({j \in DOMAIN statuses : statuses[j] = "completed"})
    IN  FolderResult(i, <<N_root, name>>, name, Len(statuses), ok, Len(statuses) - ok, 0,
                     [j \in DOMAIN statuses |-> FlattenFile(i, j, statuses[j])])

InitFlatten ==
    /\ config = DefaultConfig
    /\ tracker \in {NewTracker(b) : b \in BOOLEAN}
    /\ nextGuid = 1
    /\ sinkFails = 0
    /\ \E c \in FlattenInputs :
        proc = [NewProcessor EXCEPT !.pc = "returned",
                  !.results = [i \in DOMAIN c |-> FlattenFolder(i, c[i])]]
    /\ fileObs = <<>>
    /\ fs = NoDirs
    /\ scanner = NewScanner
    /\ ret = None
    /\ cli = NewCli
    /\ threads = NoThreads
    /\ gui = NoGui

FlattenResults ==
    /\ proc.pc = "returned"
    /\ ret' = Some(_flatten_results(get_summary(proc)))
    /\ UNCHANGED <<config, tracker, nextGuid, sinkFails, proc, fileObs, fs, scanner, cli, threads, gui>>

NextFlatten == FlattenResults

SpecFlatten == InitFlatten /\ [][NextFlatten]_vars

-----------------------------------------------------------------------------
(* The program in CLI mode: main, run_cli and TerminalInterface.run            *)
(* (src/main.py, src/cli/terminal.py), with the report of OutputHandler        *)

\* an exception that left TerminalInterface.run uncaught ends the interpreter
UncaughtStatus == 1

\* run_cli: the value of TerminalInterface.run
run_cli(run_result) == run_result

\* main in CLI mode: run_cli is called for its effect and 0 is returned
main(run_result) == 0

\* sys.exit(main()): the status of the process, given what run did; run = None
\* is an exception that run did not catch
exit_status(run) == IF run = None THEN UncaughtStatus ELSE main(run_cli(run[1]))

\* the process has ended
Exited(c, run) == [c EXCEPT !.pc = "exited", !.run = run, !.status = Some(exit_status(run))]

\* the handler of lines 91-94: print the message, log_critical, return 1; a
\* failing write of either leaves run as an exception
fatal_handler(tr, e, okPrint, okLog) ==
    LET tr1 == log_critical(tr, Msg("Fatal error", <<>>), Some(e))
    IN  IF ~okPrint THEN [tr |-> tr, run |-> None]
        ELSE [tr |-> tr1, run |-> IF output_raises(tr1, okLog) THEN None ELSE Some(1)]

\* the failed console writes of the handler
handler_fails(tr, okPrint, okLog) ==
    IF ~okPrint THEN 1 ELSE Fails(tr, << <<TRUE, okLog>> >>)

\* save_json and save_csv past the point where the file is written: the log
\* call of the try block, and the except branch that logs and raises again.
\* body is the level of the try block's log call, written is whether the file
\* could be written.
save_file(tr, what, body, written, okBody, okErr) ==
    LET tr1 == create_entry(tr, body, Msg(what, <<>>), None)
        e == IF written THEN E_sink ELSE "OSError"
        failed == ~written \/ output_raises(tr1, okBody)
        tr2 == log_error(IF written THEN tr1 ELSE tr, Msg("Failed to save", <<>>), Some(e))
    IN  [tr |-> IF failed THEN tr2 ELSE tr1,
         raised |-> failed,
         error |-> IF failed /\ output_raises(tr2, okErr) THEN E_sink ELSE e,
         calls |-> << <<written, okBody>>, <<failed, okErr>> >>]

save_json(tr, written, okBody, okErr) ==
    save_file(tr, "JSON saved to", "INFO", written, okBody, okErr)

\* save_csv returns after a warning when there are no rows
save_csv(tr, data, written, okBody, okErr) ==
    IF _flatten_results(data) = <<>>
    THEN save_file(tr, "No data to write to CSV", "WARNING", TRUE, okBody, okErr)
    ELSE save_file(tr, "CSV saved to", "INFO", written, okBody, okErr)

\* generate_report: both files, then the closing log line
generate_report(tr, processing_summary, jsonWritten, csvWritten, ok) ==
    LET j == save_json(tr, jsonWritten, ok[1], ok[2])
        c == save_csv(j.tr, processing_summary, csvWritten, ok[3], ok[4])
        tr3 == log_info(c.tr, Msg("Report generated", <<>>))
    IN  IF j.raised THEN [tr |-> j.tr, raised |-> TRUE, error |-> j.error, calls |-> j.calls]
        ELSE IF c.raised
        THEN [tr |-> c.tr, raised |-> TRUE, error |-> c.error, calls |-> j.calls \o c.calls]
        ELSE [tr |-> tr3, raised |-> output_raises(tr3, ok[5]), error |-> E_sink,
              calls |-> j.calls \o c.calls \o << <<TRUE, ok[5]>> >>]

\* what the user does at a prompt
PathAnswers == {"path", "quit", "interrupt"}
ConfirmAnswers == {"y", "n", "interrupt"}

\* main up to the scan: the interface is built and the header printed outside
\* the try block; then the path, from --path or from the prompt
CliStart ==
    /\ cli.pc = "start"
    /\ \E started \in BOOLEAN, answer \in PathAnswers, okPrint, okLog \in BOOLEAN :
        LET h == fatal_handler(tracker, "EOFError", okPrint, okLog)
            nfail == IF started /\ answer = "interrupt" THEN handler_fails(tracker, okPrint, okLog)
                     ELSE 0
        IN  /\ sinkFails + nfail <= MaxSinkFail
            /\ sinkFails' = sinkFails + nfail
            /\ IF ~started
               THEN cli' = Exited(cli, None) /\ tracker' = tracker
               ELSE IF answer = "quit"
               THEN cli' = Exited([cli EXCEPT !.answer = answer], Some(1)) /\ tracker' = tracker
               ELSE IF answer = "interrupt"
               THEN cli' = Exited([cli EXCEPT !.answer = answer], h.run) /\ tracker' = h.tr
               ELSE cli' = [cli EXCEPT !.pc = "scan", !.answer = answer] /\ tracker' = tracker
    /\ UNCHANGED <<config, nextGuid, proc, fileObs, fs, scanner, ret, threads, gui>>

\* self.scanner.scan(folder_path), line 54
CliScan ==
    /\ cli.pc = "scan"
    /\ Scan \/ Visit \/ LoopRaises \/ Unwind \/ ScanReturn
    /\ Root \notin DOMAIN fs => scanner'.rootKind # "dir"

\* lines 54-72 once scan has returned or raised: the handler, or the early
\* return for no folders, or the confirmation and the call of process_folders
CliAfterScan ==
    /\ cli.pc = "scan"
    /\ scanner.pc \in {"done", "raised"}
    /\ \E answer \in ConfirmAnswers, okPrint, okLog \in BOOLEAN :
        LET h == fatal_handler(tracker, scanner.error, okPrint, okLog)
            nfail == IF scanner.pc = "raised" THEN handler_fails(tracker, okPrint, okLog) ELSE 0
        IN  /\ sinkFails + nfail <= MaxSinkFail
            /\ sinkFails' = sinkFails + nfail
            /\ IF scanner.pc = "raised"
               THEN cli' = Exited(cli, h.run) /\ tracker' = h.tr /\ proc' = proc
               ELSE IF scanner.scanned_folders = <<>>
               THEN cli' = Exited(cli, Some(0)) /\ tracker' = tracker /\ proc' = proc
               ELSE IF answer = "n"
               THEN cli' = Exited([cli EXCEPT !.answer = answer], Some(0))
                    /\ tracker' = tracker /\ proc' = proc
               ELSE IF answer = "interrupt"
               THEN cli' = Exited([cli EXCEPT !.answer = answer], Some(1))
                    /\ tracker' = tracker /\ proc' = proc
               ELSE cli' = [cli EXCEPT !.pc = "process", !.answer = answer]
                    /\ tracker' = tracker
                    /\ process_folders(scanner.scanned_folders)
    /\ UNCHANGED <<config, nextGuid, fileObs, fs, scanner, ret, threads, gui>>

\* self.processor.process_folders(folders), line 72
CliProcess ==
    /\ cli.pc = "process"
    /\ FolderBegin \/ ProcessFile \/ FolderEnd

\* lines 72-86 once process_folders has returned or raised: the summary, the
\* report, the results and the errors report, and return 0; or the handler
CliReport ==
    /\ cli.pc = "process"
    /\ proc.pc \in {"returned", "raised"}
    /\ \E jsonWritten, csvWritten, okPrint, okLog \in BOOLEAN, ok \in [1..5 -> BOOLEAN] :
        LET summary == get_summary(proc)
            r == generate_report(tracker, summary, jsonWritten, csvWritten, ok)
            failed == proc.pc = "raised" \/ r.raised
            tr1 == IF proc.pc = "raised" THEN tracker ELSE r.tr
            h == fatal_handler(tr1, IF proc.pc = "raised" THEN E_sink ELSE r.error,
                               okPrint, okLog)
            nfail == (IF proc.pc = "raised" THEN 0 ELSE Fails(tracker, r.calls))
                     + (IF failed THEN handler_fails(tracker, okPrint, okLog) ELSE 0)
        IN  /\ sinkFails + nfail <= MaxSinkFail
            /\ sinkFails' = sinkFails + nfail
            /\ tracker' = IF failed THEN h.tr ELSE tr1
            /\ cli' = Exited([cli EXCEPT !.report =
                                 IF proc.pc = "raised" THEN ""
                                 ELSE IF r.raised THEN "failed" ELSE "saved"],
                             IF failed THEN h.run ELSE Some(0))
            /\ ret' = IF proc.pc = "raised" THEN ret ELSE Some(summary)
    /\ UNCHANGED <<config, nextGuid, proc, fileObs, fs, scanner, threads, gui>>

\* the trees the program is run on: no directory at the root path; two folders
\* of one file each; nothing to process; a folder and a subdirectory that may
\* not be listed
CliTrees ==
    { NoDirs,
      (Root :> Dir(Listing(<<N_a_pdf>>, <<N_sub>>), "ok"))
        @@ (path_join(Root, N_sub) :> Dir(Listing(<<N_B_PDF>>, <<>>), "ok")),
      (Root :> Dir(Listing(<<N_n_tmp>>, <<>>), "ok")),
      (Root :> Dir(Listing(<<N_a_pdf>>, <<N_docs>>), "ok"))
        @@ (path_join(Root, N_docs) :> Dir(<<>>, "perm")) }

\* TerminalInterface.__init__: the tracker writes to the console
InitCli ==
    /\ config = DefaultConfig
    /\ tracker = NewTracker(TRUE)
    /\ nextGuid = 1
    /\ sinkFails = 0
    /\ proc = NewProcessor
    /\ fileObs = <<>>
    /\ fs \in CliTrees
    /\ scanner = NewScanner
    /\ ret = None
    /\ cli = NewCli
    /\ threads = NoThreads
    /\ gui = NoGui

NextCli == CliStart \/ CliScan \/ CliAfterScan \/ CliProcess \/ CliReport

SpecCli == InitCli /\ [][NextCli]_vars

-----------------------------------------------------------------------------
(* A processor used again: after process_folders has returned or raised,       *)
(* process_folders is called once more, or process_folder is called on its own *)

\* what there was when the second call began: the kind of the call, the list
\* given to the first call and the results it left, the summary, and the guid
\* the next FileResult will get
SecondCall(kind) ==
    [kind |-> kind, folders |-> proc.folders, results |-> proc.results,
     summary |-> get_summary(proc), guid0 |-> nextGuid]

\* the lists given to the second call: the same Folders again, none, or a new
\* Folder that holds one file at most
AgainInputs ==
    {proc.folders, <<>>}
    \cup {<<MakeFolder(c, 1, nextGuid)>> : c \in {d \in ProcInputs : Len(d) = 1 /\ d[1] <= 1}}

\* process_folders(B) on the processor that has processed A
ProcAgain ==
    /\ proc.pc \in {"returned", "raised"}
    /\ ret = None
    /\ \E input \in AgainInputs :
        /\ process_folders(input)
        /\ nextGuid' = IF input = proc.folders \/ input = <<>> THEN nextGuid ELSE nextGuid + 1
    /\ ret' = Some(SecondCall("process_folders"))
    /\ UNCHANGED <<config, tracker, sinkFails, fileObs, fs, scanner, cli, threads, gui>>

\* process_folder(folder) called by itself on the processor that has processed A
ProcessFolderAlone ==
    /\ proc.pc = "returned"
    /\ ret = None
    /\ \E input \in AgainInputs :
        /\ input # <<>>
        /\ proc' = [NewProcessor EXCEPT !.pc = "begin", !.folders = <<input[1]>>,
                                        !.results = proc.results, !.alone = TRUE]
        /\ nextGuid' = IF input = proc.folders THEN nextGuid ELSE nextGuid + 1
    /\ ret' = Some(SecondCall("process_folder"))
    /\ UNCHANGED <<config, tracker, sinkFails, fileObs, fs, scanner, cli, threads, gui>>

\* the first call, process_folders(A), on folders that hold one file at most
AgainStart ==
    /\ Root \notin DOMAIN fs
    /\ ProcStart
    /\ SumSeq([i \in DOMAIN proc'.folders |-> proc'.folders[i].file_count]) <= 1

\* or A is the result of a scan: the scan of the tree
AgainScan ==
    /\ Root \in DOMAIN fs
    /\ proc.pc = "idle"
    /\ Scan \/ Visit \/ LoopRaises \/ Unwind \/ ScanReturn

\* and process_folders(scanner.scanned_folders)
AgainProcessScanned ==
    /\ scanner.pc = "done"
    /\ proc.pc = "idle"
    /\ process_folders(scanner.scanned_folders)
    /\ UNCHANGED <<config, tracker, nextGuid, sinkFails, fileObs, fs, scanner, ret, cli, threads, gui>>

\* a processor on lists of its own making, or on one of the trees of the
\* program in CLI mode with a tracker that does not write to the console
InitAgain ==
    /\ config = DefaultConfig
    /\ tracker \in {NewTracker(b) : b \in BOOLEAN}
    /\ nextGuid = 1
    /\ sinkFails = 0
    /\ proc = NewProcessor
    /\ fileObs = <<>>
    /\ fs \in CliTrees
    /\ Root \in DOMAIN fs => ~tracker.log_to_console
    /\ scanner = NewScanner
    /\ ret = None
    /\ cli = NewCli
    /\ threads = NoThreads
    /\ gui = NoGui

NextAgain ==
    \/ AgainStart \/ AgainScan \/ AgainProcessScanned
    \/ FolderBegin \/ ProcessFile \/ FolderEnd \/ ProcAgain \/ ProcessFolderAlone

SpecAgain == InitAgain /\ [][NextAgain]_vars

-----------------------------------------------------------------------------
(* One tracker used by several threads.  A thread may be switched between any  *)
(* two operations on the lists; each append and each clear of a list is one    *)
(* step.  The tracker of the graphical front end does not write to the console.*)

Threads == 1..MaxThreads

\* a thread that is in no call of the tracker
Idle == [pc |-> "idle", entry |-> None]

AllIdle == \A t \in DOMAIN threads.pcs : threads.pcs[t] = Idle

\* a thread enters log_info, log_warning or log_error: _create_entry has built
\* the entry (lines 109-115); or it enters clear
ThreadCall ==
    /\ threads.issued < MaxEntries
    /\ \E t \in DOMAIN threads.pcs, call \in {"INFO", "WARNING", "ERROR", "clear"} :
        /\ threads.pcs[t] = Idle
        /\ threads' =
             IF call = "clear"
             THEN [threads EXCEPT !.pcs[t] = [pc |-> "clear_entries", entry |-> None],
                                  !.cleared = TRUE]
             ELSE [threads EXCEPT
                     !.pcs[t] = [pc |-> "append_entries",
                                 entry |-> Some(LogEntry(call, Msg("call", threads.issued + 1),
                                                         None))],
                     !.issued = @ + 1]
    /\ UNCHANGED <<config, tracker, nextGuid, sinkFails, proc, fileObs, fs, scanner, ret, cli, gui>>

\* the next list operation of _create_entry (line 116, then line 119 or 121);
\* after the last one _output writes to the log file and the call returns
LogStep ==
    /\ \E t \in DOMAIN threads.pcs :
        LET th == threads.pcs[t]
            entry == th.entry[1]
            leveled == entry.level \in {"ERROR", "CRITICAL", "WARNING"}
        IN  /\ th.pc \in {"append_entries", "append_level"}
            /\ IF th.pc = "append_entries"
               THEN /\ tracker' = [tracker EXCEPT !.entries = Append(@, entry)]
                    /\ threads' = [threads EXCEPT !.pcs[t] =
                                     IF leveled THEN [th EXCEPT !.pc = "append_level"] ELSE Idle]
               ELSE /\ tracker' =
                         IF entry.level = "ERROR" \/ entry.level = "CRITICAL"
                         THEN [tracker EXCEPT !.errors = Append(@, entry)]
                         ELSE [tracker EXCEPT !.warnings = Append(@, entry)]
                    /\ threads' = [threads EXCEPT !.pcs[t] = Idle]
    /\ UNCHANGED <<config, nextGuid, sinkFails, proc, fileObs, fs, scanner, ret, cli, gui>>

\* the next statement of clear (lines 214-216)
ClearStep ==
    /\ \E t \in DOMAIN threads.pcs :
        LET th == threads.pcs[t]
        IN  /\ th.pc \in {"clear_entries", "clear_errors", "clear_warnings"}
            /\ tracker' = IF th.pc = "clear_entries" THEN [tracker EXCEPT !.entries = <<>>]
                          ELSE IF th.pc = "clear_errors" THEN [tracker EXCEPT !.errors = <<>>]
                          ELSE [tracker EXCEPT !.warnings = <<>>]
            /\ threads' = [threads EXCEPT !.pcs[t] =
                             IF th.pc = "clear_entries" THEN [th EXCEPT !.pc = "clear_errors"]
                             ELSE IF th.pc = "clear_errors"
                             THEN [th EXCEPT !.pc = "clear_warnings"]
                             ELSE Idle]
    /\ UNCHANGED <<config, nextGuid, sinkFails, proc, fileObs, fs, scanner, ret, cli, gui>>

InitThreads ==
    /\ config = DefaultConfig
    /\ tracker = NewTracker(FALSE)
    /\ nextGuid = 1
    /\ sinkFails = 0
    /\ proc = NewProcessor
    /\ fileObs = <<>>
    /\ fs = NoDirs
    /\ scanner = NewScanner
    /\ ret = None
    /\ cli = NewCli
    /\ threads = [NoThreads EXCEPT !.pcs = [t \in Threads |-> Idle]]
    /\ gui = NoGui

NextThreads == ThreadCall \/ LogStep \/ ClearStep

SpecThreads == InitThreads /\ [][NextThreads]_vars

-----------------------------------------------------------------------------
(* The graphical front end (src/gui/interface.py).  The handlers of the        *)
(* buttons run one at a time on the main thread; _process_files runs on a      *)
(* worker thread, whose steps interleave with the handlers.  A scan is named   *)
(* by its number: gui.scanner is the scan that made self.scanner,              *)
(* gui.scanned_folders the scan that returned the list self.scanned_folders    *)
(* (0 is the empty list), and a worker records the list it processed and the   *)
(* scanner whose summary went into its report.                                 *)

\* FileProcessorGUI.__init__
NewGui == [NoGui EXCEPT !.pc = "idle"]

\* threading.Thread(target=self._process_files), started
NewWorker == [pc |-> "start", folders |-> 0, summary |-> 0]

ActiveWorkers == {w \in DOMAIN gui.workers : gui.workers[w].pc # "finished"}

\* _browse_folder: a folder is chosen
GuiBrowse ==
    /\ gui.pc = "idle"
    /\ gui' = [gui EXCEPT !.path = TRUE]
    /\ UNCHANGED <<config, tracker, nextGuid, sinkFails, proc, fileObs, fs, scanner, ret, cli, threads>>

\* _scan_folders up to the call of scan (lines 178-192): a new scanner on the
\* shared tracker
GuiScan ==
    /\ gui.pc = "idle"
    /\ gui.path
    /\ gui.scans < MaxGuiScans
    /\ gui' = [gui EXCEPT !.pc = "scanning", !.scans = @ + 1, !.scanner = gui.scans + 1]
    /\ UNCHANGED <<config, tracker, nextGuid, sinkFails, proc, fileObs, fs, scanner, ret, cli, threads>>

\* _scan_folders once scan has returned folders, returned none, or raised
\* (lines 192-214)
GuiScanEnd ==
    /\ gui.pc = "scanning"
    /\ \E outcome \in {"folders", "empty", "raised"} :
        gui' = IF outcome = "folders"
               THEN [gui EXCEPT !.pc = "idle", !.scanned_folders = gui.scanner,
                                !.process_btn = "normal"]
               ELSE IF outcome = "empty"
               THEN [gui EXCEPT !.pc = "idle", !.scanned_folders = 0]
               ELSE [gui EXCEPT !.pc = "idle"]
    /\ UNCHANGED <<config, tracker, nextGuid, sinkFails, proc, fileObs, fs, scanner, ret, cli, threads>>

\* the Process button: _confirm_and_process and, on "yes", _start_processing
GuiProcess ==
    /\ gui.pc = "idle"
    /\ gui.process_btn = "normal"
    /\ Len(gui.workers) < MaxThreads
    /\ \E yes \in BOOLEAN :
        gui' = IF gui.scanned_folders = 0 \/ ~yes THEN gui
               ELSE [gui EXCEPT !.is_processing = TRUE, !.process_btn = "disabled",
                                !.workers = Append(@, NewWorker)]
    /\ UNCHANGED <<config, tracker, nextGuid, sinkFails, proc, fileObs, fs, scanner, ret, cli, threads>>

\* the Clear button: _clear_all
GuiClear ==
    /\ gui.pc = "idle"
    /\ gui' = [gui EXCEPT !.path = FALSE, !.scanned_folders = 0, !.process_btn = "disabled"]
    /\ tracker' = clear(tracker)
    /\ UNCHANGED <<config, nextGuid, sinkFails, proc, fileObs, fs, scanner, ret, cli, threads>>

\* a callback the worker left with root.after: the Process button is enabled
GuiAfter ==
    /\ gui.pc = "idle"
    /\ gui.after > 0
    /\ gui' = [gui EXCEPT !.after = @ - 1, !.process_btn = "normal"]
    /\ UNCHANGED <<config, tracker, nextGuid, sinkFails, proc, fileObs, fs, scanner, ret, cli, threads>>

\* the next step of a worker in _process_files: process_folders is called with
\* self.scanned_folders as it is then (line 252); the report is made with the
\* summary of self.scanner as it is then (lines 253-257); the finally clause
WorkerStep ==
    /\ \E w \in ActiveWorkers :
        LET wk == gui.workers[w]
        IN  gui' = IF wk.pc = "start"
                   THEN [gui EXCEPT !.workers[w] =
                           [wk EXCEPT !.pc = "processing", !.folders = gui.scanned_folders]]
                   ELSE IF wk.pc = "processing"
                   THEN [gui EXCEPT !.workers[w] =
                           [wk EXCEPT !.pc = "reported", !.summary = gui.scanner]]
                   ELSE [gui EXCEPT !.workers[w] = [wk EXCEPT !.pc = "finished"],
                                    !.is_processing = FALSE, !.after = @ + 1]
    /\ UNCHANGED <<config, tracker, nextGuid, sinkFails, proc, fileObs, fs, scanner, ret, cli, threads>>

InitGui ==
    /\ config = DefaultConfig
    /\ tracker = NewTracker(FALSE)
    /\ nextGuid = 1
    /\ sinkFails = 0
    /\ proc = NewProcessor
    /\ fileObs = <<>>
    /\ fs = NoDirs
    /\ scanner = NewScanner
    /\ ret = None
    /\ cli = NewCli
    /\ threads = NoThreads
    /\ gui = NewGui

NextGui ==
    GuiBrowse \/ GuiScan \/ GuiScanEnd \/ GuiProcess \/ GuiClear \/ GuiAfter \/ WorkerStep

SpecGui == InitGui /\ [][NextGui]_vars

-----------------------------------------------------------------------------
(* Claims about the processor *)

Range(s) == {s[i] : i \in DOMAIN s}

\* the Folder of the current call that a FolderResult belongs to
FolderOf(r) == CHOOSE f \in Range(proc.folders) : f.guid = r.folder_guid

\* every FileResult the processor holds: those of the FolderResults and those of
\* the folder in progress
HeldFileResults ==
    UNION {Range(r.file_results) : r \in Range(proc.results)} \cup Range(proc.file_results)

\* the observation of the attempt that produced a FileResult
ObsOf(fr) == CHOOSE o \in Range(fileObs) : o.file_guid = fr.file_guid

CountStatus(file_results, status) ==
    Cardinality({i \in DOMAIN file_results : file_results[i].status = status})

\* C1: every FolderResult of process_folders holds exactly one FileResult per entry
\* of its Folder's file list, in the same order: the i-th FileResult carries the
\* i-th file name and the Folder's guid, whichever files failed.
C1_OneFileResultPerEntry ==
    \A r \in Range(proc.results) :
        /\ \E f \in Range(proc.folders) : f.guid = r.folder_guid
        /\ Len(r.file_results) = Len(FolderOf(r).files)
        /\ \A i \in DOMAIN r.file_results :
            /\ r.file_results[i].filename = FolderOf(r).files[i]
            /\ r.file_results[i].folder_guid = FolderOf(r).guid

\* a FolderResult of two files whose first file went through the except branch of
\* process_folder and whose second file completed
C1_Witness ==
    \E r \in Range(proc.results) :
        /\ Len(r.file_results) = 2
        /\ r.file_results[1].status = "error"
        /\ ObsOf(r.file_results[1]).extract = "notrun"
        /\ r.file_results[2].status = "completed"

\* C2: in every FolderResult, len(file_results) = total_files = the number of files
\* of the Folder, processed + error + skipped = total_files, and processed_files and
\* error_files count the FileResults with status completed and error.
C2_CountsAddUp ==
    \A r \in Range(proc.results) :
        /\ Len(r.file_results) = r.total_files
        /\ r.total_files = Len(FolderOf(r).files)
        /\ r.processed_files + r.error_files + r.skipped_files = r.total_files
        /\ r.processed_files = CountStatus(r.file_results, "completed")
        /\ r.error_files = CountStatus(r.file_results, "error")

\* a FolderResult with one completed and one error file
C2_Witness ==
    \E r \in Range(proc.results) :
        r.total_files = 2 /\ r.processed_files = 1 /\ r.error_files = 1

\* C3: every FileResult has status completed or error; it is completed exactly when
\* _extract_metadata returned, and then it has no error message and a populated
\* metadata map; it is error exactly when the extraction or the per-file step
\* raised, and then it has an error message and empty metadata.
C3_StatusMessageMetadata ==
    \A fr \in HeldFileResults :
        /\ fr.status \in {"completed", "error"}
        /\ fr.status = "completed" <=> ObsOf(fr).extract \in {"ok", "oserror"}
        /\ fr.status = "error" <=> ObsOf(fr).extract \in {"raise", "notrun"}
        /\ fr.status = "completed" => fr.error_message = None /\ fr.metadata # {}
        /\ fr.status = "error" => fr.error_message # None /\ fr.metadata = {}
        /\ fr.error_message # None <=> fr.status = "error"

\* the processor holds a completed FileResult and the error FileResult of an
\* extraction that raised
C3_Witness ==
    /\ \E fr \in HeldFileResults : fr.status = "completed"
    /\ \E fr \in HeldFileResults : fr.status = "error" /\ ObsOf(fr).extract = "raise"

\* C4: a file whose stat fails during metadata extraction gets a FileResult with
\* status error and an error message, and the failure is among the Tracker's
\* errors.
C4_StatFailureIsError ==
    \A fr \in HeldFileResults :
        ObsOf(fr).extract = "oserror" =>
            /\ fr.status = "error"
            /\ fr.error_message # None
            /\ \E i \in DOMAIN tracker.errors : tracker.errors[i].message.arg = <<fr.filename>>

\* C5: a failed size stat is not fatal: the file gets its FileResult in the folder
\* being processed, with file_size 0, and its status is completed if the extraction
\* then returned and error if not.
C5_SizeStatFailure ==
    /\ \A fr \in HeldFileResults :
            ObsOf(fr).size = "oserror" =>
                /\ fr.filename = ObsOf(fr).filename
                /\ fr.file_size = 0
                /\ fr.status = (IF ObsOf(fr).extract \in {"ok", "oserror"}
                                THEN "completed" ELSE "error")
    /\ proc.pc = "files" =>
            \A o \in Range(fileObs) :
                (o.folder_guid = proc.folders[proc.fi].guid /\ o.size = "oserror") =>
                    Cardinality({i \in DOMAIN proc.file_results :
                                    proc.file_results[i].file_guid = o.file_guid}) = 1

\* a file whose size stat failed and that completed with a full metadata map
C5_Witness ==
    \E fr \in HeldFileResults :
        /\ ObsOf(fr).size = "oserror"
        /\ ObsOf(fr).extract = "ok"
        /\ fr.status = "completed"
        /\ fr.file_size = 0

-----------------------------------------------------------------------------
(* Claims about the scanner *)

Depth(path) == Len(path) - 1

HasHiddenComponent(path) == \E i \in DOMAIN path : path[i][1] = "."

FolderPaths == {f.path : f \in Range(scanner.scanned_folders)}

\* the subdirectories a directory was found to hold
ChildDirs(p) == {Append(p, e.name) : e \in {x \in Range(fs[p].entries) : x.kind = "dir"}}

\* the directories the model knows of: those enumerated and their subdirectories
KnownDirs == DOMAIN fs \cup UNION {ChildDirs(p) : p \in DOMAIN fs}

\* p can be reached from the root through enumerated directories, is not below or
\* at a skipped hidden directory and is not deeper than max_depth
Reachable(p) ==
    /\ p[1] = N_root
    /\ Depth(p) <= config.max_depth
    /\ config.skip_hidden_folders => ~HasHiddenComponent(p)
    /\ \A i \in 1..(Len(p) - 1) :
        /\ SubSeq(p, 1, i) \in DOMAIN fs
        /\ SubSeq(p, 1, i + 1) \in ChildDirs(SubSeq(p, 1, i))

\* the names of the model's universe whose extension, compared without regard to
\* case, is a supported one
SupportedNames == {N_a_pdf, N_B_PDF, N_c_txt, N_d_csv, N_h_pdf}

\* the processable files of an enumerated directory as the specification defines
\* them, in the order of the enumeration
ExpectedOf(entries) ==
    LET kept == SelectSeq(entries,
                          LAMBDA e : /\ e.kind = "file"
                                     /\ e.name \in SupportedNames
                                     /\ ~(config.skip_hidden_files /\ e.name[1] = "."))
    IN  [i \in DOMAIN kept |-> kept[i].name]

ExpectedFiles(p) == ExpectedOf(fs[p].entries)

\* the entries of an enumerated directory that come before the first one whose stat
\* is denied (all of them when there is none)
BeforeDenied(p) ==
    LET denied == {i \in DOMAIN fs[p].entries : fs[p].entries[i].kind = "denied"}
    IN  IF denied = {} THEN fs[p].entries
        ELSE SubSeq(fs[p].entries, 1, (CHOOSE i \in denied : \A j \in denied : i <= j) - 1)

\* the scan returned and no error was recorded
ErrorFree == scanner.pc = "done" /\ tracker.errors = <<>>

\* C6: after an error-free scan, a directory that is reachable from the root without
\* passing a skipped hidden directory and is not deeper than max_depth has been
\* enumerated and has exactly one Folder if it holds a processable file and none if
\* it holds none; every Folder is such a directory.
C6_FolderIffProcessable ==
    ErrorFree =>
        /\ \A p \in KnownDirs :
            Reachable(p) =>
                /\ p \in DOMAIN fs
                /\ Cardinality({i \in DOMAIN scanner.scanned_folders :
                                   scanner.scanned_folders[i].path = p})
                   = (IF ExpectedFiles(p) # <<>> THEN 1 ELSE 0)
        /\ \A p \in FolderPaths : Reachable(p)

\* an error-free scan whose root holds only unsupported files and has no Folder,
\* while a subdirectory of the root has one
C6_Witness ==
    /\ ErrorFree
    /\ Root \notin FolderPaths
    /\ \E e \in Range(fs[Root].entries) : e.kind = "file"
    /\ \E p \in FolderPaths : Depth(p) = 1

\* C7: every Folder has file_count = len(files) >= 1, and files is the sequence, in
\* the order of the enumeration, of the directory's direct file entries that are not
\* hidden (when hidden files are skipped) and have a supported extension whatever
\* its case: all of them, or those before an entry whose stat was denied.
C7_FolderFiles ==
    \A f \in Range(scanner.scanned_folders) :
        /\ f.file_count = Len(f.files)
        /\ Len(f.files) >= 1
        /\ f.path \in DOMAIN fs
        /\ f.files = ExpectedOf(BeforeDenied(f.path))
        /\ \A i \in DOMAIN f.files : f.files[i] \in Range(ExpectedFiles(f.path))

\* a Folder whose directory holds an unsupported file, a file without extension and
\* two supported files, one of them with an upper-case extension
C7_Witness ==
    \E f \in Range(scanner.scanned_folders) :
        /\ f.files = <<N_B_PDF, N_a_pdf>>
        /\ Len(fs[f.path].entries) > 2

\* C8: no Folder is deeper than max_depth and a Folder's depth is that of its path;
\* no directory deeper than max_depth is enumerated; after an error-free scan a
\* reachable directory at depth max_depth has been enumerated and has its Folder if
\* it holds processable files; a warning is recorded only for a directory at depth
\* max_depth + 1, and after an error-free scan for every subdirectory of an
\* enumerated directory at depth max_depth.
C8_DepthLimit ==
    /\ \A f \in Range(scanner.scanned_folders) :
        f.depth <= config.max_depth /\ f.depth = Depth(f.path)
    /\ \A p \in scanner.listed : Depth(p) <= config.max_depth
    /\ DOMAIN fs = scanner.listed
    /\ \A i \in DOMAIN tracker.warnings :
        /\ tracker.warnings[i].message.text = "Max depth reached at"
        /\ Depth(tracker.warnings[i].message.arg) = config.max_depth + 1
        /\ tracker.warnings[i].message.arg \notin scanner.listed
    /\ ErrorFree =>
        \A p \in KnownDirs :
            (Reachable(p) /\ Depth(p) = config.max_depth) =>
                /\ p \in scanner.listed
                /\ ExpectedFiles(p) # <<>> => p \in FolderPaths
                /\ \A c \in ChildDirs(p) :
                    \E i \in DOMAIN tracker.warnings : tracker.warnings[i].message.arg = c

\* an error-free scan with max_depth 1 that reported a directory at depth 1 and
\* recorded the warning for a subdirectory of it
C8_Witness ==
    /\ ErrorFree
    /\ config.max_depth = 1
    /\ \E f \in Range(scanner.scanned_folders) :
        /\ f.depth = 1
        /\ \E i \in DOMAIN tracker.warnings :
            tracker.warnings[i].message.arg \in ChildDirs(f.path)

\* the Tracker entries that name a hidden directory
HiddenEntries ==
    {i \in DOMAIN tracker.entries :
        /\ tracker.entries[i].message.arg # <<>>
        /\ Last(tracker.entries[i].message.arg)[1] = "."}

\* C9 as claimed: with hidden folders skipped, no Folder lies at or below a hidden
\* directory, no such directory is enumerated, and no Tracker entry names a hidden
\* directory.
C9_HiddenNoEntry ==
    config.skip_hidden_folders =>
        /\ \A p \in FolderPaths : ~HasHiddenComponent(p)
        /\ \A p \in scanner.listed : ~HasHiddenComponent(p)
        /\ HiddenEntries = {}

\* C9 as amended: with hidden folders skipped, no Folder lies at or below a hidden
\* directory and no such directory is enumerated; the only Tracker entry a hidden
\* directory causes is the depth warning, when it lies at depth max_depth + 1; and
\* after an error-free scan the non-hidden subdirectories of an enumerated directory
\* above max_depth are enumerated, hidden siblings or not.
C9_HiddenInvisible ==
    config.skip_hidden_folders =>
        /\ \A p \in FolderPaths : ~HasHiddenComponent(p)
        /\ \A p \in scanner.listed : ~HasHiddenComponent(p)
        /\ \A i \in HiddenEntries :
            /\ tracker.entries[i].level = "WARNING"
            /\ tracker.entries[i].message.text = "Max depth reached at"
            /\ Depth(tracker.entries[i].message.arg) = config.max_depth + 1
        /\ ErrorFree =>
            \A p \in scanner.listed : \A c \in ChildDirs(p) :
                (Depth(c) <= config.max_depth /\ ~HasHiddenComponent(c)) => c \in scanner.listed

\* an error-free scan with hidden folders skipped whose root holds a hidden
\* directory, skipped without a Tracker entry, and a sibling that has its Folder
C9_Witness ==
    /\ ErrorFree
    /\ config.skip_hidden_folders
    /\ <<N_root, N_git>> \in ChildDirs(Root)
    /\ <<N_root, N_git>> \notin scanner.listed
    /\ HiddenEntries = {}
    /\ <<N_root, N_sub>> \in FolderPaths

\* C10: when the root does not exist scan raises FileNotFoundError, and when it is
\* no directory NotADirectoryError; in both cases nothing is enumerated and the
\* scanner holds no Folders, so that its summary reports 0 folders and 0 files.
C10_RootErrors ==
    scanner.rootKind \in {"missing", "file"} =>
        /\ scanner.pc = "raised"
        /\ scanner.error = (IF scanner.rootKind = "missing"
                            THEN "FileNotFoundError" ELSE "NotADirectoryError")
        /\ scanner.listed = {}
        /\ scanner.scanned_folders = <<>>
        /\ scan_summary(scanner) = [total_folders |-> 0, total_files |-> 0]

\* the directory failed: its enumeration raised, or the stat of one of its entries
DirFailed(p) ==
    fs[p].err # "ok" \/ \E i \in DOMAIN fs[p].entries : fs[p].entries[i].kind = "denied"

\* C11: when the root is a directory, scan does not raise; once it has returned,
\* every directory that failed has a Tracker error entry naming it, and every
\* subdirectory of an enumerated directory that did not fail itself was visited
\* (enumerated if it is within max_depth and not a skipped hidden directory),
\* whether or not one of its siblings failed.
C11_ScanNeverFails ==
    scanner.rootKind = "dir" =>
        /\ scanner.pc # "raised"
        /\ scanner.pc = "done" =>
            /\ \A p \in scanner.listed :
                DirFailed(p) =>
                    \E i \in DOMAIN tracker.errors : tracker.errors[i].message.arg = p
            /\ \A q \in scanner.listed :
                ~DirFailed(q) =>
                    \A c \in ChildDirs(q) :
                        (/\ Depth(c) <= config.max_depth
                         /\ ~(config.skip_hidden_folders /\ HasHiddenComponent(c)))
                        => c \in scanner.listed

\* path p is q or lies beneath q
AtOrBeneath(p, q) == Len(p) >= Len(q) /\ SubSeq(p, 1, Len(q)) = q

\* C12: a directory on which a permission or I/O error occurred during the scan has
\* no Folder, and no directory beneath it has one.
C12_FailedDirNoFolder ==
    \A q \in scanner.listed :
        DirFailed(q) => \A p \in FolderPaths : ~AtOrBeneath(p, q)

-----------------------------------------------------------------------------
(* More claims about the processor *)

\* the failure of the folder was logged by process_folders
FolderFailureLogged(f) ==
    \E i \in DOMAIN tracker.errors :
        /\ tracker.errors[i].message.text = "Failed to process folder"
        /\ tracker.errors[i].message.arg = f.path

\* the folders of the returned list are, in order, the input folders whose failure
\* was not logged
ResultsAreUnfailedInput ==
    LET kept == SelectSeq(proc.folders, LAMBDA f : ~FolderFailureLogged(f))
    IN  [i \in DOMAIN proc.results |-> proc.results[i].folder_guid]
        = [i \in DOMAIN kept |-> kept[i].guid]

\* C13: process_folders does not raise; when it has returned, the returned list is
\* the input restricted, in order, to the folders that did not fail, and the
\* failure of each of the others is logged as a Tracker error.
C13_ProcessFoldersNeverFails ==
    /\ proc.pc # "raised"
    /\ proc.pc = "returned" => ResultsAreUnfailedInput

\* a float x = FloatNum(x) / FloatDen(x), as a fraction of integers
FloatDen(x) == IF x.e < 0 THEN Pow2(0 - x.e) ELSE 1
FloatNum(x) == IF x.e < 0 THEN x.m ELSE x.m * Pow2(x.e)

Abs(n) == IF n < 0 THEN 0 - n ELSE n

\* the counts of a summary are the number of FolderResults and the sums of their counts
SummaryTotals(s) ==
    /\ s.total_folders = Len(proc.results)
    /\ s.total_files = SumSeq([i \in DOMAIN proc.results |-> proc.results[i].total_files])
    /\ s.total_processed = SumSeq([i \in DOMAIN proc.results |-> proc.results[i].processed_files])
    /\ s.total_errors = SumSeq([i \in DOMAIN proc.results |-> proc.results[i].error_files])
    /\ s.total_skipped = SumSeq([i \in DOMAIN proc.results |-> proc.results[i].skipped_files])

\* C14 as claimed: the counts of the summary are the sums of the per-folder counts,
\* success_rate * total_files = 100 * total_processed exactly when total_files > 0,
\* and success_rate = 0 when total_files = 0.
C14_SuccessRateExact ==
    ret # None =>
        LET s == ret[1]
        IN  /\ SummaryTotals(s)
            /\ s.total_files > 0 =>
                FloatNum(s.success_rate) * s.total_files
                = 100 * s.total_processed * FloatDen(s.success_rate)
            /\ s.total_files = 0 => s.success_rate = FloatZero

\* C14 as amended: the counts of the summary are the sums of the per-folder counts;
\* when total_files > 0, success_rate * total_files differs from 100 * total_processed
\* by no more than the rounding of the two float operations (a relative error below
\* 4 units of roundoff); success_rate is 0 when total_files = 0 and always lies in
\* [0, 100].
C14_SuccessRateRounded ==
    ret # None =>
        LET s == ret[1]
            num == FloatNum(s.success_rate)
            den == FloatDen(s.success_rate)
        IN  /\ SummaryTotals(s)
            /\ s.total_files > 0 =>
                Abs(num * s.total_files - 100 * s.total_processed * den) * Pow2(MantBits - 2)
                <= 100 * s.total_processed * den
            /\ s.total_files = 0 => s.success_rate = FloatZero
            /\ 0 <= num /\ num <= 100 * den

\* a summary of two FolderResults with three files of which one was processed: the
\* rate is a rounded value
C14_Witness ==
    /\ ret # None
    /\ ret[1].total_folders = 2
    /\ ret[1].total_files = 3
    /\ ret[1].total_processed = 1
    /\ ret[1].total_errors = 2
    /\ ret[1].success_rate.m # 0

-----------------------------------------------------------------------------
(* Claims about the tracker *)

\* s is a prefix of t
IsPrefix(s, t) == Len(s) <= Len(t) /\ SubSeq(t, 1, Len(s)) = s

\* the errors list is the subsequence of entries whose level is error or critical
\* and the warnings list the subsequence of those whose level is warning;
\* get_error_count and get_warning_count return their numbers
ListsPartitionEntries ==
    /\ tracker.errors = SelectSeq(tracker.entries, LAMBDA e : e.level \in {"ERROR", "CRITICAL"})
    /\ tracker.warnings = SelectSeq(tracker.entries, LAMBDA e : e.level = "WARNING")
    /\ (ret # None /\ ret[1].call = "get_counts") =>
        /\ ret[1].value[1]
           = Cardinality({i \in DOMAIN tracker.entries :
                             tracker.entries[i].level \in {"ERROR", "CRITICAL"}})
        /\ ret[1].value[2]
           = Cardinality({i \in DOMAIN tracker.entries : tracker.entries[i].level = "WARNING"})

\* a step that is no clear leaves the entries held so far as they are and in place
EntriesOnlyGrow ==
    ret'[1].call # "clear" => IsPrefix(tracker.entries, tracker'.entries)

\* C15: at all times the errors list is exactly the subsequence of entries whose
\* level is error or critical and the warnings list exactly the subsequence of
\* those whose level is warning, get_error_count and get_warning_count return
\* their numbers, and between two clears entries only grows: no step but clear
\* removes or rewrites an entry.
C15_TrackerLists == []ListsPartitionEntries /\ [][EntriesOnlyGrow]_vars

\* entries of all kinds were logged and the counts asked for
C15_Witness ==
    /\ ret # None
    /\ ret[1].call = "get_counts"
    /\ ret[1].value = <<2, 1>>
    /\ Len(tracker.entries) = 3
    /\ tracker.entries[1].level = "CRITICAL"
    /\ tracker.entries[2].level = "WARNING"
    /\ tracker.entries[3].level = "ERROR"

LogCalls == {"log_debug", "log_info", "log_warning", "log_error", "log_critical"}

\* C16: no log_* call raises, whether or not the console takes the entry.
C16_LogNeverRaises ==
    (ret # None /\ ret[1].call \in LogCalls) => ~ret[1].raised

NoErrorsReport == [text |-> "No errors recorded.", items |-> <<>>, total |-> 0]

\* C17: right after clear the tracker is as a new one (entries, errors and warnings
\* empty), so that later log calls are counted from zero; get_error_count and
\* get_warning_count are then 0 and the errors report is the 'no errors' text.
C17_ClearResets ==
    ret # None =>
        /\ ret[1].call = "clear" =>
            /\ tracker = NewTracker(tracker.log_to_console)
            /\ get_error_count(tracker) = 0
            /\ get_warning_count(tracker) = 0
            /\ get_errors_report(tracker) = NoErrorsReport
        /\ (ret[1].call = "get_counts" /\ tracker.entries = <<>>) => ret[1].value = <<0, 0>>
        /\ (ret[1].call = "get_errors_report" /\ tracker.entries = <<>>)
            => ret[1].value = NoErrorsReport

\* log calls were made (the console failed twice), the tracker was cleared, and the
\* errors report asked for afterwards is the 'no errors' text
C17_Witness ==
    /\ ret # None
    /\ ret[1].call = "get_errors_report"
    /\ ret[1].value = NoErrorsReport
    /\ tracker.entries = <<>>
    /\ sinkFails = 2

-----------------------------------------------------------------------------
(* Claims about the output handler *)

\* the number of rows a FolderResult is to have: one per file result, one if none
RowsOfFolder(r) == IF r.file_results = <<>> THEN 1 ELSE Len(r.file_results)

\* the number of rows before those of the i-th FolderResult
RowsBefore(i) == SumSeq([j \in 1..(i - 1) |-> RowsOfFolder(proc.results[j])])

\* C18: the rows are one per FileResult plus one per FolderResult without file
\* results; the rows of a folder come after those of the folders before it, in
\* the order of its file results, each with the guid, name and path of the folder
\* and the name and path of its file; the row of a folder without file results has
\* its file-specific fields empty.
C18_FlattenRows ==
    ret # None =>
        LET rows == ret[1]
        IN  /\ Len(rows) = RowsBefore(Len(proc.results) + 1)
            /\ \A i \in DOMAIN proc.results :
                LET r == proc.results[i]
                IN  /\ \A k \in 1..RowsOfFolder(r) :
                        /\ rows[RowsBefore(i) + k].folder_guid = <<r.folder_guid>>
                        /\ rows[RowsBefore(i) + k].folder_name = <<r.folder_name>>
                        /\ rows[RowsBefore(i) + k].folder_path = <<r.folder_path>>
                    /\ \A k \in DOMAIN r.file_results :
                        /\ rows[RowsBefore(i) + k].filename = <<r.file_results[k].filename>>
                        /\ rows[RowsBefore(i) + k].filepath = <<r.file_results[k].filepath>>
                        /\ rows[RowsBefore(i) + k].status = <<r.file_results[k].status>>
                    /\ r.file_results = <<>> =>
                        \A key \in {"filename", "filepath", "status", "file_type",
                                    "file_size", "error_message"} :
                            rows[RowsBefore(i) + 1][key] = <<>>

\* three rows of two folders: the first folder without file results, the second
\* with a completed and an error file result
C18_Witness ==
    /\ ret # None
    /\ Len(proc.results) = 2
    /\ proc.results[1].file_results = <<>>
    /\ Len(proc.results[2].file_results) = 2
    /\ Len(ret[1]) = 3
    /\ ret[1][1].filename = <<>>
    /\ ret[1][2].status = <<"completed">>
    /\ ret[1][3].status = <<"error">>

-----------------------------------------------------------------------------
(* Claims about the program in CLI mode *)

\* the run met nothing but recoverable errors: the scan returned, no console
\* write failed, the user went on and the report was saved
RecoverableOnly ==
    /\ scanner.pc = "done"
    /\ sinkFails = 0
    /\ cli.answer = "y"
    /\ cli.report = "saved"

\* C19: the program started through main() in CLI mode exits with a non-zero
\* status whenever the scan raised (root path missing or not a directory), while
\* a run that met only recoverable errors (a directory that may not be listed, a
\* file that fails) exits with status 0 and has a result for every folder
C19_FatalExitsNonZero ==
    cli.pc = "exited" =>
        /\ scanner.pc = "raised" => cli.status # Some(0)
        /\ RecoverableOnly =>
              /\ cli.status = Some(0)
              /\ Len(proc.results) = Len(scanner.scanned_folders)

-----------------------------------------------------------------------------
(* Claims about scanning twice *)

\* the same Folders in the same order, but for their identifiers
SameButGuid(a, b) ==
    /\ Len(a) = Len(b)
    /\ \A i \in DOMAIN a : [a[i] EXCEPT !.guid = 0] = [b[i] EXCEPT !.guid = 0]

\* both scans of the tree returned
BothReturned == ret # None /\ ~ret[1].raised /\ scanner.pc = "done"

\* C20: when the same unmodified tree is scanned twice, on the same scanner or
\* on two scanners with the same configuration, the second scan returns Folders
\* with the same paths, file lists, counts and depths in the same order as the
\* first; every identifier of the second result is a fresh one, so nothing of
\* the first result is left in it
C20_RescanSame ==
    BothReturned =>
        /\ SameButGuid(ret[1].folders, scanner.scanned_folders)
        /\ \A i \in DOMAIN scanner.scanned_folders :
              scanner.scanned_folders[i].guid >= ret[1].guid0

-----------------------------------------------------------------------------
(* Claims about the order of the scan result and about termination *)

\* C21: the scan result is in depth-first pre-order: the Folder of a directory
\* comes before the Folders of the directories beneath it, and between the
\* Folder of a directory and the Folder of one of its descendants there are
\* only Folders of its descendants
C21_PreOrder ==
    LET sf == scanner.scanned_folders
    IN  \A i, k \in DOMAIN sf :
            i # k /\ AtOrBeneath(sf[k].path, sf[i].path) =>
                /\ i < k
                /\ \A j \in i..k : AtOrBeneath(sf[j].path, sf[i].path)

\* a finished scan that found a directory of depth 1, then a directory beneath
\* it, then a sibling of the first
C21_Witness ==
    /\ scanner.pc = "done"
    /\ \E i, j, k \in DOMAIN scanner.scanned_folders :
        LET sf == scanner.scanned_folders
        IN  /\ i < j /\ j < k
            /\ sf[i].depth = 1 /\ sf[j].depth = 2 /\ sf[k].depth = 1
            /\ AtOrBeneath(sf[j].path, sf[i].path)
            /\ ~AtOrBeneath(sf[k].path, sf[i].path)

\* the paths at which the scan stopped because of the depth limit
DepthWarnings ==
    {tracker.entries[i].message.arg : i \in
        {j \in DOMAIN tracker.entries :
            tracker.entries[j].message.text = "Max depth reached at"}}

\* no directory deeper than max_depth is enumerated or being scanned, the scan
\* turns back at depth max_depth + 1, and no two Folders have the same path
DepthBoundedPathsDistinct ==
    /\ \A p \in scanner.listed : Depth(p) <= config.max_depth
    /\ \A i \in DOMAIN scanner.stack : scanner.stack[i].depth <= config.max_depth
    /\ \A p \in DepthWarnings : Depth(p) = config.max_depth + 1
    /\ \A i, j \in DOMAIN scanner.scanned_folders :
          scanner.scanned_folders[i].path = scanner.scanned_folders[j].path => i = j

\* C24: a scan of a finite directory structure comes to its end (it returns, or
\* raises), also when directory links form a cycle: it visits no path more than
\* max_depth + 1 components below the root, and the paths of the Folders of the
\* result are pairwise distinct
C24_ScanTerminates ==
    /\ <>(scanner.pc \in {"done", "raised"})
    /\ []DepthBoundedPathsDistinct

\* a scan that returned after it followed a link cycle down to the depth limit:
\* a Folder whose path passes twice through the link, and the warning beneath it
C24_Witness ==
    /\ scanner.pc = "done"
    /\ \E i \in DOMAIN scanner.scanned_folders :
        LET path == scanner.scanned_folders[i].path
        IN  /\ Len(path) >= 3
            /\ path[Len(path)] = N_lnk /\ path[Len(path) - 1] = N_lnk
            /\ path_join(path, N_lnk) \in DepthWarnings

-----------------------------------------------------------------------------
(* Claims about the tracker under threads *)

\* the entries of a list, as a set
EntrySet(list) == {list[i] : i \in DOMAIN list}

\* no entry twice in a list
NoDuplicates(list) == \A i, j \in DOMAIN list : list[i] = list[j] => i = j

\* C22: under every interleaving of log calls of different threads with each
\* other and with clear, once all calls have returned no entry is in a list
\* twice, errors and warnings hold exactly the error and the warning entries
\* that are in entries, and when clear was never called entries holds one
\* entry for every log call
C22_ThreadsTolerated ==
    AllIdle =>
        /\ NoDuplicates(tracker.entries)
        /\ NoDuplicates(tracker.errors)
        /\ NoDuplicates(tracker.warnings)
        /\ EntrySet(tracker.errors)
           = {e \in EntrySet(tracker.entries) : e.level \in {"ERROR", "CRITICAL"}}
        /\ EntrySet(tracker.warnings)
           = {e \in EntrySet(tracker.entries) : e.level = "WARNING"}
        /\ ~threads.cleared => Len(tracker.entries) = threads.issued

-----------------------------------------------------------------------------
(* Claims about the graphical front end *)

\* C23: in the graphical front end at most one worker is active at any time,
\* no scan runs while a worker is active, and the report of every worker is
\* made with the summary of the scan whose folders the worker processed
C23_OneRunAtATime ==
    /\ Cardinality(ActiveWorkers) <= 1
    /\ ~(gui.pc = "scanning" /\ ActiveWorkers # {})
    /\ \A w \in DOMAIN gui.workers :
          gui.workers[w].pc \in {"reported", "finished"} =>
              gui.workers[w].summary = gui.workers[w].folders

-----------------------------------------------------------------------------
(* Claims about a processor used again, and about identifiers *)

\* C25: the processor keeps only the results of the most recent process_folders
\* call: during and after process_folders(B) that follows process_folders(A),
\* every FolderResult is that of a Folder of B and every FileResult was made in
\* this call, so that get_summary counts at most len(B) folders and nothing of
\* A; and process_folder called on its own leaves the summary as it was
C25_OnlyLastCall ==
    ret # None =>
        /\ ret[1].kind = "process_folders" =>
              /\ \A r \in Range(proc.results) :
                    /\ \E f \in Range(proc.folders) : f.guid = r.folder_guid
                    /\ \A fr \in Range(r.file_results) : fr.file_guid >= ret[1].guid0
              /\ get_summary(proc).total_folders <= Len(proc.folders)
              /\ get_summary(proc).total_files
                 = SumSeq([i \in DOMAIN proc.results |-> Len(proc.results[i].file_results)])
        /\ ret[1].kind = "process_folder" => get_summary(proc) = ret[1].summary

\* process_folders(B) has returned a result, after process_folders(A) had left
\* a result for another list
C25_Witness ==
    /\ ret # None
    /\ ret[1].kind = "process_folders"
    /\ ret[1].results # <<>>
    /\ ret[1].folders # proc.folders
    /\ proc.pc = "returned"
    /\ proc.results # <<>>
    /\ get_summary(proc).total_folders = 1

\* the FolderResults left by the call before, and those of the call under way
\* (process_folder called by itself keeps the list of the call before)
PriorResults == IF ret = None THEN <<>> ELSE ret[1].results
CurrentResults ==
    IF ret # None /\ ret[1].kind = "process_folder" THEN <<>> ELSE proc.results

\* every FileResult held anywhere, with the place where it is held
FileResultsAt ==
    UNION {{[at |-> <<"prior", i, k>>, r |-> PriorResults[i].file_results[k]] :
               k \in DOMAIN PriorResults[i].file_results} : i \in DOMAIN PriorResults}
    \cup UNION {{[at |-> <<"current", i, k>>, r |-> CurrentResults[i].file_results[k]] :
               k \in DOMAIN CurrentResults[i].file_results} : i \in DOMAIN CurrentResults}
    \cup {[at |-> <<"folder", proc.fi, k>>, r |-> proc.file_results[k]] :
               k \in DOMAIN proc.file_results}

\* every Folder in sight: those of the scan, those being processed, those of
\* the call before
KnownFolders ==
    Range(scanner.scanned_folders) \cup Range(proc.folders)
    \cup (IF ret = None THEN {} ELSE Range(ret[1].folders))

\* all Folder identifiers of one scan result differ
FolderGuidsDistinct ==
    \A i, j \in DOMAIN scanner.scanned_folders :
        i # j => scanner.scanned_folders[i].guid # scanner.scanned_folders[j].guid

\* every FileResult has an identifier of its own, that of no Folder either
FileGuidsFresh ==
    /\ \A a, b \in FileResultsAt : a.at # b.at => a.r.file_guid # b.r.file_guid
    /\ \A a \in FileResultsAt : \A f \in KnownFolders : a.r.file_guid # f.guid

\* a FolderResult and its FileResults carry the identifier of their Folder
CarriesFolderGuid(results, folders) ==
    \A i \in DOMAIN results :
        /\ \E f \in Range(folders) :
            /\ results[i].folder_guid = f.guid
            /\ results[i].folder_path = f.path
            /\ results[i].total_files = Len(f.files)
            /\ \A k \in DOMAIN results[i].file_results :
                /\ results[i].file_results[k].folder_guid = f.guid
                /\ results[i].file_results[k].filename = f.files[k]

GuidsCarried ==
    /\ CarriesFolderGuid(CurrentResults, proc.folders)
    /\ ret # None => CarriesFolderGuid(PriorResults, ret[1].folders)
    /\ \A k \in DOMAIN proc.file_results :
        proc.file_results[k].folder_guid = proc.folders[proc.fi].guid

\* a step of processing leaves the scan result and the list it was given alone
FoldersKept ==
    /\ scanner.pc = "done" => scanner' = scanner
    /\ (proc.pc # "idle" /\ ret' = ret) => proc'.folders = proc.folders
    /\ (scanner.pc = "done" /\ proc.pc = "idle" /\ proc'.pc # "idle")
        => proc'.folders = scanner.scanned_folders

\* C26: identifiers are unique and stable: the Folders of a scan result have
\* pairwise distinct identifiers; every FileResult has an identifier no other
\* FileResult and no Folder has, also when the same file is processed again by
\* a later call; each FolderResult and each of its FileResults carries its
\* Folder's identifier; and processing changes neither the Folder list nor a
\* field of a Folder
C26_IdentifiersUniqueAndStable ==
    /\ [](FolderGuidsDistinct /\ FileGuidsFresh /\ GuidsCarried)
    /\ [][FoldersKept]_vars

\* a scan found two Folders, they were processed, and the same Folders were
\* processed again: results of both calls are held for the same file
C26_Witness ==
    /\ Len(scanner.scanned_folders) = 2
    /\ ret # None
    /\ ret[1].kind = "process_folders"
    /\ ret[1].folders = scanner.scanned_folders
    /\ proc.folders = scanner.scanned_folders
    /\ proc.pc = "returned"
    /\ Len(ret[1].results) = 2
    /\ Len(proc.results) = 2
    /\ \E a, b \in FileResultsAt :
        a.at[1] = "prior" /\ b.at[1] = "current" /\ a.r.filepath = b.r.filepath

====
